---- MODULE Spec2Model ----
(***************************************************************************)
(* Model of the codecs of discord-types-rs: the gateway payload decoder    *)
(* (src/src/event.rs, impl Deserialize for Payload), the voice event       *)
(* decoder (src/src/voice.rs), the command encoders (src/src/command.rs,   *)
(* src/src/voice.rs), Snowflake, the typed ids, the flag sets, Color and   *)
(* Interaction (src/src/types.rs, src/src/bitflags.rs) and the accessors   *)
(* of the two Event enums.  Each has its own specification over the        *)
(* shared variables.                                                       *)
(*                                                                         *)
(* A frame is the sequence of (key, value) entries of one JSON object in   *)
(* document order, as serde's MapAccess hands them to visit_map.  Option   *)
(* values are sequences of length 0 (None / JSON null) or 1 (Some).  The   *)
(* body records carried by the typed events (Hello, Ready, ...) are plain  *)
(* derived records; a `d` value is abstracted to its JSON shape and the    *)
(* name of the record type it is a valid encoding of ("" when none).       *)
(***************************************************************************)
EXTENDS Integers, Sequences, FiniteSets, TLC

VARIABLES frame, map, t, sequence, op, payload, result, pc,
          event, log, input, output

vars == <<frame, map, t, sequence, op, payload, result, pc,
          event, log, input, output>>

\* What the gateway decoder does not touch: the voice visitor's `event`, the
\* caller's record of the frames decoded so far, and the argument and the
\* value of the scalar codecs and of the command encoder.
others == <<event, log, input, output>>

\* Longest frame (number of top-level keys) the model feeds to the decoder.
MaxLen == 4

\* Largest value of the u8 operation code.
U8Max == 255

None == <<>>
Some(x) == <<x>>

----------------------------------------------------------------------------
(* Errors and results                                                      *)

MissingField(f) == [kind |-> "MissingField", field |-> f]
DuplicateField(f) == [kind |-> "DuplicateField", field |-> f]
\* The error a derived body record reports when `d` is no encoding of it.
BodyError(ty) == [kind |-> "BodyError", field |-> ty]

Ok(v) == [kind |-> "Ok", value |-> v]
Err(e) == [kind |-> "Err", error |-> e]

----------------------------------------------------------------------------
(* Event construction                                                      *)

\* map.next_value::<T>()? for a body type T, wrapped in the variant of the
\* same name: succeeds when `d` is an encoding of T.
TypedEvent(ty, d) ==
    IF d.body = ty THEN Ok([variant |-> ty, data |-> d.body])
    ELSE Err(BodyError(ty))

\* map.next_value::<IgnoredAny>()? followed by a unit variant: every JSON
\* value is accepted and dropped.
UnitEvent(v, d) == Ok([variant |-> v, data |-> ""])

\* map.next_value::<IgnoredAny>()? followed by Event::Unknown(tag).
UnknownEvent(tag, d) == Ok([variant |-> "Unknown", data |-> tag])

DecimalDigit == <<"0", "1", "2", "3", "4", "5", "6", "7", "8", "9">>

\* format!("{}", e) for e: u8, the decimal representation.
RECURSIVE Format(_)
Format(e) ==
    IF e < 10 THEN DecimalDigit[e + 1]
    ELSE Format(e \div 10) \o DecimalDigit[(e % 10) + 1]

----------------------------------------------------------------------------
(* The dispatch match of the "d" arm                                       *)

\* The inner match on the type tag of a dispatch frame (op 0, t present).
DispatchTag(tag, d) ==
    CASE tag = "READY" -> TypedEvent("Ready", d)
      [] tag = "RESUMED" -> UnitEvent("Resumed", d)
      [] tag = "GUILD_CREATE" -> TypedEvent("GuildCreate", d)
      [] tag = "GUILD_UPDATE" -> TypedEvent("GuildUpdate", d)
      [] tag = "GUILD_DELETE" -> TypedEvent("GuildDelete", d)
      [] tag = "MESSAGE_CREATE" -> TypedEvent("MessageCreate", d)
      [] tag = "MESSAGE_UPDATE" -> TypedEvent("MessageUpdate", d)
      [] tag = "MESSAGE_DELETE" -> TypedEvent("MessageDelete", d)
      [] tag = "GUILD_MEMBER_ADD" -> TypedEvent("GuildMemberAdd", d)
      [] tag = "GUILD_MEMBER_UPDATE" -> TypedEvent("GuildMemberUpdate", d)
      [] tag = "GUILD_MEMBER_REMOVE" -> TypedEvent("GuildMemberRemove", d)
      [] tag = "GUILD_MEMBERS_CHUNK" -> TypedEvent("GuildMembersChunk", d)
      [] tag = "GUILD_ROLE_CREATE" -> TypedEvent("GuildRoleCreate", d)
      [] tag = "GUILD_ROLE_UPDATE" -> TypedEvent("GuildRoleUpdate", d)
      [] tag = "GUILD_ROLE_DELETE" -> TypedEvent("GuildRoleDelete", d)
      [] tag = "CHANNEL_CREATE" -> TypedEvent("ChannelCreate", d)
      [] tag = "CHANNEL_UPDATE" -> TypedEvent("ChannelUpdate", d)
      [] tag = "CHANNEL_DELETE" -> TypedEvent("ChannelDelete", d)
      [] tag = "APPLICATION_COMMAND_CREATE" ->
            TypedEvent("ApplicationCommandCreate", d)
      [] tag = "APPLICATION_COMMAND_UPDATE" ->
            TypedEvent("ApplicationCommandUpdate", d)
      [] tag = "APPLICATION_COMMAND_DELETE" ->
            TypedEvent("ApplicationCommandDelete", d)
      [] tag = "INTERACTION_CREATE" -> TypedEvent("InteractionCreate", d)
      [] tag = "VOICE_STATE_UPDATE" -> TypedEvent("VoiceStateUpdate", d)
      [] tag = "VOICE_SERVER_UPDATE" -> TypedEvent("VoiceServerUpdate", d)
      [] OTHER -> UnknownEvent(tag, d)

\* Dispatch with the heartbeat-ack arm lost: op 11 falls to the catch-all.
DispatchNoAck(o, tag, d) ==
    CASE o = 9 -> TypedEvent("InvalidSession", d)
      [] o = 10 -> TypedEvent("Hello", d)
      [] o = 0 /\ tag # None -> DispatchTag(tag[1], d)
      [] o = 0 /\ tag = None -> Err(MissingField("t"))
      [] OTHER -> UnknownEvent(Format(o), d)

\* match (op, t.as_deref()): o is the operation code, tag the Option<String>
\* held in `t` when `d` is reached.
Dispatch(o, tag, d) ==
    CASE o = 9 -> TypedEvent("InvalidSession", d)
      [] o = 10 -> TypedEvent("Hello", d)
      [] o = 11 -> UnitEvent("HeartbeatAck", d)
      [] o = 0 /\ tag # None -> DispatchTag(tag[1], d)
      [] o = 0 /\ tag = None -> Err(MissingField("t"))
      [] OTHER -> UnknownEvent(Format(o), d)

----------------------------------------------------------------------------
(* The arms of visit_map, over the visitor's locals                        *)
(* L = [t, sequence, op, payload, err]; err is Some(e) once an arm has     *)
(* returned Err(e).                                                        *)

\* The locals kept from the previous call instead of being declared afresh
\* (as fields of a visitor that is reused would be).
StaleLocals ==
    [t |-> t, sequence |-> sequence, op |-> op, payload |-> payload, err |-> None]

\* let mut t = None; let mut sequence = None; let mut op = None;
\* let mut payload = None;
InitLocals ==
    [t |-> None, sequence |-> None, op |-> None, payload |-> None, err |-> None]

Fail(L, e) == [L EXCEPT !.err = Some(e)]

\* "t" arm: t = map.next_value()? into Option<String> (null reads as None).
VisitT(L, v) ==
    IF L.t # None THEN Fail(L, DuplicateField("t"))
    ELSE [L EXCEPT !.t = v]

\* The "s" arm with the assignment lost: the value is read and dropped.
VisitSDropped(L, v) ==
    IF L.sequence # None THEN Fail(L, DuplicateField("s"))
    ELSE L

\* "s" arm: sequence = map.next_value()? into Option<u64>.
VisitS(L, v) ==
    IF L.sequence # None THEN Fail(L, DuplicateField("s"))
    ELSE [L EXCEPT !.sequence = v]

\* "op" arm: op = Some(map.next_value()?) into u8.
VisitOp(L, v) ==
    IF L.op # None THEN Fail(L, DuplicateField("op"))
    ELSE [L EXCEPT !.op = Some(v)]

\* "d" arm: classify by the op and t seen so far, decode `d` accordingly and
\* build the Payload with the sequence seen so far.
VisitD(L, d) ==
    IF L.payload # None THEN Fail(L, DuplicateField("d"))
    ELSE IF L.op = None THEN Fail(L, MissingField("op"))
    ELSE LET r == Dispatch(L.op[1], L.t, d)
         IN  IF r.kind = "Err" THEN Fail(L, r.error)
             ELSE [L EXCEPT !.payload =
                       Some([sequence |-> L.sequence, event |-> r.value])]

\* The wildcard arm rejecting unknown keys (as deny_unknown_fields would).
VisitOtherDenied(L, v) == Fail(L, [kind |-> "UnknownField", field |-> "_"])

\* Wildcard arm: map.next_value::<IgnoredAny>()?, the value is dropped.
VisitOther(L, v) == L

KnownKeys == {"t", "s", "op", "d"}

\* One turn of the while-let loop: match key { ... } on one entry.
VisitEntry(L, e) ==
    CASE e.key = "t" -> VisitT(L, e.val)
      [] e.key = "s" -> VisitS(L, e.val)
      [] e.key = "op" -> VisitOp(L, e.val)
      [] e.key = "d" -> VisitD(L, e.val)
      [] OTHER -> VisitOther(L, e.val)

\* The end of visit_map with the wrong field named in the error.
FinishWrongField(L) ==
    IF L.payload = None THEN Err(MissingField("op")) ELSE Ok(L.payload[1])

\* payload.ok_or_else(|| de::Error::missing_field("d"))
Finish(L) ==
    IF L.payload = None THEN Err(MissingField("d")) ELSE Ok(L.payload[1])

\* visit_map as a function of the whole frame: the loop, then Finish.
RECURSIVE VisitMap(_, _)
VisitMap(L, m) ==
    IF m = <<>> THEN Finish(L)
    ELSE LET n == VisitEntry(L, Head(m))
         IN  IF n.err # None THEN Err(n.err[1]) ELSE VisitMap(n, Tail(m))

\* Payload::deserialize on a frame.
DecodeFrame(f) == VisitMap(InitLocals, f)

----------------------------------------------------------------------------
(* Input frames                                                            *)

Entry(k, v) == [key |-> k, val |-> v]

JsonNull == [shape |-> "null", body |-> ""]
JsonArray == [shape |-> "array", body |-> ""]
JsonScalar == [shape |-> "scalar", body |-> ""]
JsonObject == [shape |-> "object", body |-> ""]
\* A JSON value that is a valid encoding of the body record ty.
BodyOf(ty) ==
    [shape |-> IF ty = "InvalidSession" THEN "scalar" ELSE "object", body |-> ty]

\* The body types of the Event enum's tuple variants.
BodyTypes ==
    {"Hello", "Ready", "InvalidSession", "GuildCreate", "GuildUpdate",
     "GuildDelete", "MessageCreate", "MessageUpdate", "MessageDelete",
     "GuildMemberAdd", "GuildMemberUpdate", "GuildMemberRemove",
     "GuildMembersChunk", "GuildRoleCreate", "GuildRoleUpdate",
     "GuildRoleDelete", "ChannelCreate", "ChannelUpdate", "ChannelDelete",
     "ApplicationCommandCreate", "ApplicationCommandUpdate",
     "ApplicationCommandDelete", "InteractionCreate", "VoiceStateUpdate",
     "VoiceServerUpdate"}

\* The type tags the decoder is fed: the 24 the match names, and tags it
\* does not name (one of them a commented-out arm of the match).
KnownTags ==
    {"READY", "RESUMED", "GUILD_CREATE", "GUILD_UPDATE", "GUILD_DELETE",
     "MESSAGE_CREATE", "MESSAGE_UPDATE", "MESSAGE_DELETE", "GUILD_MEMBER_ADD",
     "GUILD_MEMBER_UPDATE", "GUILD_MEMBER_REMOVE", "GUILD_MEMBERS_CHUNK",
     "GUILD_ROLE_CREATE", "GUILD_ROLE_UPDATE", "GUILD_ROLE_DELETE",
     "CHANNEL_CREATE", "CHANNEL_UPDATE", "CHANNEL_DELETE",
     "APPLICATION_COMMAND_CREATE", "APPLICATION_COMMAND_UPDATE",
     "APPLICATION_COMMAND_DELETE", "INTERACTION_CREATE", "VOICE_STATE_UPDATE",
     "VOICE_SERVER_UPDATE"}
OtherTags == {"SOME_NEW_EVENT", "MESSAGE_DELETE_BULK", "ready", ""}

\* Entries of the frames whose keys come in any order, any number of times.
TValues == {None, Some("READY"), Some("SOME_NEW_EVENT")}
SValues == {None, Some(1), Some(2)}
OpValues == {0, 10, 42}
DValues == {JsonNull, JsonObject, BodyOf("Ready"), BodyOf("Hello")}
Entries ==
    {Entry("t", v) : v \in TValues} \cup {Entry("s", v) : v \in SValues}
    \cup {Entry("op", v) : v \in OpValues} \cup {Entry("d", v) : v \in DValues}
    \cup {Entry("v", JsonScalar), Entry("x", JsonObject)}

\* Every frame of at most MaxLen entries over Entries.
Frames == UNION {[1..n -> Entries] : n \in 0..MaxLen}

\* Frames in the wire order t, s, op, d (t absent or present), over every
\* operation code and tag: dispatch frames with every tag and `d` shape,
\* other frames with a few of each.
AllD == {JsonNull, JsonArray, JsonScalar, JsonObject} \cup {BodyOf(ty) : ty \in BodyTypes}
WireFrame(tag, s, o, d) ==
    (IF tag = None THEN <<>> ELSE <<Entry("t", tag)>>)
        \o <<Entry("s", s), Entry("op", o), Entry("d", d)>>
WireFrames ==
    {WireFrame(tag, Some(1), 0, d) :
        tag \in {None} \cup {Some(x) : x \in KnownTags \cup OtherTags}, d \in AllD}
    \cup {WireFrame(tag, s, o, d) :
            tag \in {None, Some("READY")}, s \in {None, Some(7)}, o \in 1..U8Max,
            d \in {JsonNull, JsonObject, BodyOf("Hello"), BodyOf("InvalidSession")}}

----------------------------------------------------------------------------
(* The decoder as a state machine                                          *)

Locals ==
    [t |-> t, sequence |-> sequence, op |-> op, payload |-> payload, err |-> None]

SetLocals(L) ==
    /\ t' = L.t
    /\ sequence' = L.sequence
    /\ op' = L.op
    /\ payload' = L.payload

\* No decode has run yet.
Init ==
    /\ frame = <<>>
    /\ map = <<>>
    /\ t = None
    /\ sequence = None
    /\ op = None
    /\ payload = None
    /\ result = None
    /\ pc = "idle"
    /\ event = None
    /\ log = <<>>
    /\ input = None
    /\ output = None

\* Payload::deserialize is called on a frame: visit_map starts with its
\* four locals None.
Deserialize(f) ==
    /\ frame' = f
    /\ map' = f
    /\ SetLocals(InitLocals)
    /\ result' = None
    /\ pc' = "visit"

\* The outcome n of one arm: either the arm returned an error, which ends
\* the decode with the entry unconsumed, or the entry is consumed.
Step(n) ==
    IF n.err # None
    THEN /\ result' = Some(Err(n.err[1]))
         /\ pc' = "done"
         /\ UNCHANGED <<frame, map, t, sequence, op, payload, others>>
    ELSE /\ SetLocals(n)
         /\ map' = Tail(map)
         /\ UNCHANGED <<frame, result, pc, others>>

\* map.next_key() returned Some(key): the next entry is to be matched.
HasKey == pc = "visit" /\ map # <<>>

KeyT ==
    /\ HasKey
    /\ Head(map).key = "t"
    /\ Step(VisitT(Locals, Head(map).val))

KeyS ==
    /\ HasKey
    /\ Head(map).key = "s"
    /\ Step(VisitS(Locals, Head(map).val))

KeyOp ==
    /\ HasKey
    /\ Head(map).key = "op"
    /\ Step(VisitOp(Locals, Head(map).val))

KeyD ==
    /\ HasKey
    /\ Head(map).key = "d"
    /\ Step(VisitD(Locals, Head(map).val))

KeyOther ==
    /\ HasKey
    /\ Head(map).key \notin KnownKeys
    /\ Step(VisitOther(Locals, Head(map).val))

\* map.next_key() returns None: the loop ends and visit_map returns.
EndOfMap ==
    /\ pc = "visit"
    /\ map = <<>>
    /\ result' = Some(Finish(Locals))
    /\ pc' = "done"
    /\ UNCHANGED <<frame, map, t, sequence, op, payload, others>>

\* The transport hands the decoder one complete frame.
Start ==
    /\ pc = "idle"
    /\ \E f \in Frames \cup WireFrames : Deserialize(f)
    /\ UNCHANGED others

Next ==
    \/ Start
    \/ KeyT
    \/ KeyS
    \/ KeyOp
    \/ KeyD
    \/ KeyOther
    \/ EndOfMap

Spec == Init /\ [][Next]_vars

----------------------------------------------------------------------------
(* Vocabulary of the properties                                            *)

Done == pc = "done"
Outcome == result[1]
Succeeded == Done /\ Outcome.kind = "Ok"

Keys(f) == {f[i].key : i \in DOMAIN f}
Positions(f, k) == {i \in DOMAIN f : f[i].key = k}
Has(f, k) == Positions(f, k) # {}
\* The value of the first entry of f with key k.
ValueOf(f, k) == f[CHOOSE i \in Positions(f, k) : \A j \in Positions(f, k) : i <= j].val
FirstPos(f, k) == CHOOSE i \in Positions(f, k) : \A j \in Positions(f, k) : i <= j
\* No known key occurs twice.
NoRepeatedKey(f) == \A k \in KnownKeys : Cardinality(Positions(f, k)) <= 1
\* Exactly the keys op and d, each once, any number of the other keys at most once.
WellFormed(f) ==
    /\ NoRepeatedKey(f)
    /\ Has(f, "op")
    /\ Has(f, "d")
\* The value of `s` in a frame, None when the frame has no `s`.
SequenceOf(f) == IF Has(f, "s") THEN ValueOf(f, "s") ELSE None
\* The value of `t` in a frame, None when the frame has no `t`.
TagOf(f) == IF Has(f, "t") THEN ValueOf(f, "t") ELSE None
\* Every reordering of a frame.
Reorderings(f) ==
    {[i \in DOMAIN f |-> f[p[i]]] : p \in Permutations(DOMAIN f)}
\* The number of entries the loop has consumed.
Consumed == Len(frame) - Len(map)
\* What a decode yields apart from the sequence: the event, or the error.
EventOf(r) == IF r.kind = "Ok" THEN Ok(r.value.event) ELSE r
Unknown(tag) == [variant |-> "Unknown", data |-> tag]

----------------------------------------------------------------------------
(* Key order                                                               *)

\* A frame whose keys are op and d, and t exactly when op is 0.
OpTagData(f) ==
    /\ WellFormed(f)
    /\ Keys(f) \subseteq {"op", "t", "d"}
    /\ Has(f, "t") <=> ValueOf(f, "op") = 0
    /\ Has(f, "t") => ValueOf(f, "t") # None

\* C1: a frame whose keys are op, d and (for op 0) t decodes to the same
\* event in every order of its keys: each reordering of a decoded frame
\* yields the event (or the error) the frame itself yielded.
C1_KeyOrderIndependent ==
    (Done /\ OpTagData(frame)) =>
        \A g \in Reorderings(frame) : EventOf(DecodeFrame(g)) = EventOf(Outcome)

----------------------------------------------------------------------------
(* Duplicate keys                                                          *)

\* Entry j of the frame repeats the known key of an earlier entry.
Repeats(f, j) ==
    /\ f[j].key \in KnownKeys
    /\ \E i \in 1..(j - 1) : f[i].key = f[j].key

\* C2: when the decoder reaches the second occurrence of one of the keys
\* t, s, op, d, the decode fails with DuplicateField of that key, whatever
\* the two values are.
C2_SecondOccurrenceFails ==
    Done =>
        \A j \in DOMAIN frame :
            (j <= Consumed + 1 /\ Repeats(frame, j)) =>
                Outcome = Err(DuplicateField(frame[j].key))

----------------------------------------------------------------------------
(* The sequence                                                            *)

\* C3: a dispatch frame carrying `s` = n decodes to sequence Some(n),
\* wherever the `s` key stands in the frame.
C3_SequenceWhereverPlaced ==
    (Succeeded /\ NoRepeatedKey(frame) /\ ValueOf(frame, "op") = 0
        /\ Has(frame, "s")) =>
        Outcome.value.sequence = ValueOf(frame, "s")

\* C4 as first stated: the sequence of a decoded Payload is None exactly
\* when the frame's op is not the dispatch code 0.
C4_NoneIffNotDispatch ==
    Succeeded => (Outcome.value.sequence = None <=> op[1] # 0)

\* The value of the first non-null `s` that stands before the first `d`.
SeenBeforeData(f) ==
    LET seen == {i \in Positions(f, "s") :
                    i < FirstPos(f, "d") /\ f[i].val # None}
    IN  IF seen = {} THEN None
        ELSE f[CHOOSE i \in seen : \A j \in seen : i <= j].val

\* C4 as amended: the sequence of a decoded Payload does not depend on the
\* op; it is the non-null `s` standing before `d` in the frame, and None
\* exactly when there is none, for dispatch and other frames alike.
C4_SequenceIsSeenS ==
    Succeeded => Outcome.value.sequence = SeenBeforeData(frame)

\* A frame that is not a dispatch decoded to a Payload with a sequence.
C4_Witness ==
    /\ Succeeded
    /\ op[1] # 0
    /\ Outcome.value.sequence = Some(2)

----------------------------------------------------------------------------
(* Unknown tags and operation codes                                        *)

\* C5: a frame with op 0 and a type tag outside the dispatch table decodes
\* to Event::Unknown of that tag with the frame's sequence, whatever `d` is.
C5_UnknownTagDecodes ==
    (Done /\ WellFormed(frame) /\ ValueOf(frame, "op") = 0
        /\ TagOf(frame) # None /\ TagOf(frame)[1] \notin KnownTags) =>
        Outcome = Ok([sequence |-> SequenceOf(frame),
                      event |-> Unknown(TagOf(frame)[1])])

\* C6: a frame whose op is none of 0, 9, 10, 11 decodes to Event::Unknown of
\* the decimal string of the op, with or without t, whatever `d` is.
C6_UnknownOpDecodes ==
    (Done /\ WellFormed(frame) /\ ValueOf(frame, "op") \notin {0, 9, 10, 11}) =>
        /\ Outcome.kind = "Ok"
        /\ Outcome.value.event = Unknown(ToString(ValueOf(frame, "op")))

----------------------------------------------------------------------------
(* Missing fields                                                          *)

DuplicateError(r) == r.kind = "Err" /\ r.error.kind = "DuplicateField"

\* C7: a frame without a `d` key fails with MissingField("d"), whatever
\* other keys it has, unless a duplicate-field error came first.
C7_NoDataMissingField ==
    (Done /\ ~Has(frame, "d") /\ ~DuplicateError(Outcome)) =>
        Outcome = Err(MissingField("d"))

\* A frame with op, t and s but no d was read to its end.
C7_Witness ==
    /\ Done
    /\ Keys(frame) = {"op", "t", "s"}
    /\ map = <<>>
    /\ Outcome = Err(MissingField("d"))

\* C8: a frame with op 0 and `d` but no type tag (t absent or null) fails
\* with MissingField("t"); a frame with another op never does.
C8_DispatchNeedsTag ==
    (Done /\ WellFormed(frame)) =>
        IF ValueOf(frame, "op") = 0
        THEN TagOf(frame) = None => Outcome = Err(MissingField("t"))
        ELSE Outcome # Err(MissingField("t"))

----------------------------------------------------------------------------
(* The dispatch table                                                      *)

\* The documented table of type tags of dispatch frames, tag to variant.
TagTable ==
    {<<"READY", "Ready">>, <<"RESUMED", "Resumed">>,
     <<"GUILD_CREATE", "GuildCreate">>, <<"GUILD_UPDATE", "GuildUpdate">>,
     <<"GUILD_DELETE", "GuildDelete">>, <<"MESSAGE_CREATE", "MessageCreate">>,
     <<"MESSAGE_UPDATE", "MessageUpdate">>, <<"MESSAGE_DELETE", "MessageDelete">>,
     <<"GUILD_MEMBER_ADD", "GuildMemberAdd">>,
     <<"GUILD_MEMBER_UPDATE", "GuildMemberUpdate">>,
     <<"GUILD_MEMBER_REMOVE", "GuildMemberRemove">>,
     <<"GUILD_MEMBERS_CHUNK", "GuildMembersChunk">>,
     <<"GUILD_ROLE_CREATE", "GuildRoleCreate">>,
     <<"GUILD_ROLE_UPDATE", "GuildRoleUpdate">>,
     <<"GUILD_ROLE_DELETE", "GuildRoleDelete">>,
     <<"CHANNEL_CREATE", "ChannelCreate">>, <<"CHANNEL_UPDATE", "ChannelUpdate">>,
     <<"CHANNEL_DELETE", "ChannelDelete">>,
     <<"APPLICATION_COMMAND_CREATE", "ApplicationCommandCreate">>,
     <<"APPLICATION_COMMAND_UPDATE", "ApplicationCommandUpdate">>,
     <<"APPLICATION_COMMAND_DELETE", "ApplicationCommandDelete">>,
     <<"INTERACTION_CREATE", "InteractionCreate">>,
     <<"VOICE_STATE_UPDATE", "VoiceStateUpdate">>,
     <<"VOICE_SERVER_UPDATE", "VoiceServerUpdate">>}

\* The variant the documented table gives for (o, tag); "Unknown" off the table.
TableVariant(o, tag) ==
    CASE o = 9 -> "InvalidSession"
      [] o = 10 -> "Hello"
      [] o = 11 -> "HeartbeatAck"
      [] o = 0 /\ tag # None /\ (\E row \in TagTable : row[1] = tag[1]) ->
            (CHOOSE row \in TagTable : row[1] = tag[1])[2]
      [] OTHER -> "Unknown"

\* The keys of the documented table.
TableKeys ==
    {<<9, None>>, <<10, None>>, <<11, None>>}
    \cup {<<0, Some(row[1])>> : row \in TagTable}

\* The variants the match yields for (o, tag) over every `d`.
VariantsOf(o, tag) ==
    {Dispatch(o, tag, d).value.variant :
        d \in {x \in AllD : Dispatch(o, tag, x).kind = "Ok"}}

\* C9: the decoder classifies by the documented table.  Whenever `d` has
\* been decoded the event's variant is the table's for the op and t held
\* (Unknown carrying the tag, or the decimal string of the op),
\* a body that fails to decode is the body of the table's variant, so
\* nothing off the table reaches a variant other than Unknown; and no two
\* keys of the table yield the same variant.
C9_ClassificationIsTable ==
    /\ payload # None =>
            /\ payload[1].event.variant = TableVariant(op[1], t)
            /\ payload[1].event.variant = "Unknown" =>
                    payload[1].event.data =
                        IF op[1] = 0 THEN t[1] ELSE ToString(op[1])
    /\ (Done /\ Outcome.kind = "Err" /\ Outcome.error.kind = "BodyError") =>
            Outcome.error.field = TableVariant(op[1], t)
    /\ pc = "idle" =>
            \A k1, k2 \in TableKeys :
                /\ VariantsOf(k1[1], k1[2]) # {}
                /\ "Unknown" \notin VariantsOf(k1[1], k1[2])
                /\ k1 # k2 =>
                    VariantsOf(k1[1], k1[2]) \cap VariantsOf(k2[1], k2[2]) = {}

\* A dispatch frame in wire order with the last tag of the table decoded.
C9_Witness ==
    /\ Succeeded
    /\ frame = WireFrame(Some("VOICE_SERVER_UPDATE"), Some(1), 0,
                         BodyOf("VoiceServerUpdate"))
    /\ Outcome.value.event.variant = "VoiceServerUpdate"

----------------------------------------------------------------------------
(* Unknown keys                                                            *)

IsKnown(e) == e.key \in KnownKeys
UnknownPositions(f) == {i \in DOMAIN f : ~IsKnown(f[i])}

\* C10: keys other than t, s, op, d are ignored: a frame decodes to what
\* the frame without its unknown keys decodes to, the same Payload or the
\* same error.
C10_UnknownKeysIgnored ==
    Done => Outcome = DecodeFrame(SelectSeq(frame, IsKnown))

\* A frame with two unknown keys around its known keys decoded to a Payload.
C10_Witness ==
    /\ Succeeded
    /\ Cardinality(UnknownPositions(frame)) = 2
    /\ ~IsKnown(frame[1])

----------------------------------------------------------------------------
(* The voice event decoder (src/src/voice.rs, impl Deserialize for Event)  *)
(* An event is [variant, data, code]: data names the decoded body record   *)
(* ("" for a unit variant), code is Some(op) for Unknown(op), else None.   *)

\* The name of the body record of a voice variant.
VoiceBody(v) == "voice::" \o v

\* A JSON value that is a valid encoding of the voice body record of v.
VoiceBodyOf(v) ==
    [shape |-> IF v = "HeartbeatAck" THEN "scalar" ELSE "object",
     body |-> VoiceBody(v)]

\* Event::V(map.next_value()?): succeeds when `d` is an encoding of the body.
VoiceTyped(v, d) ==
    IF d.body = VoiceBody(v)
    THEN Ok([variant |-> v, data |-> d.body, code |-> None])
    ELSE Err(BodyError(v))

\* map.next_value::<IgnoredAny>()?; Event::Resumed
VoiceResumed(d) == Ok([variant |-> "Resumed", data |-> "", code |-> None])

\* map.next_value::<IgnoredAny>()?; Event::Unknown(e)
VoiceUnknown(e, d) == Ok([variant |-> "Unknown", data |-> "", code |-> Some(e)])

\* The match with the arm of op 9 commented out, as the arm of op 13 is.
VoiceMatchNoResumed(o, d) ==
    CASE o = 2 -> VoiceTyped("Ready", d)
      [] o = 4 -> VoiceTyped("SessionDescription", d)
      [] o = 5 -> VoiceTyped("Speaking", d)
      [] o = 6 -> VoiceTyped("HeartbeatAck", d)
      [] o = 8 -> VoiceTyped("Hello", d)
      [] OTHER -> VoiceUnknown(o, d)

\* let ev = match op { ... }
VoiceMatch(o, d) ==
    CASE o = 2 -> VoiceTyped("Ready", d)
      [] o = 4 -> VoiceTyped("SessionDescription", d)
      [] o = 5 -> VoiceTyped("Speaking", d)
      [] o = 6 -> VoiceTyped("HeartbeatAck", d)
      [] o = 8 -> VoiceTyped("Hello", d)
      [] o = 9 -> VoiceResumed(d)
      [] OTHER -> VoiceUnknown(o, d)

\* The visitor's locals, L = [op, event, err].
VoiceInitLocals == [op |-> None, event |-> None, err |-> None]

\* The "op" arm without its duplicate check: the later value wins.
VoiceVisitOpOverwrites(L, v) == [L EXCEPT !.op = Some(v)]

\* "op" arm: op = Some(map.next_value()?) into u8.
VoiceVisitOp(L, v) ==
    IF L.op # None THEN Fail(L, DuplicateField("op"))
    ELSE [L EXCEPT !.op = Some(v)]

\* "d" arm: classify by the op seen so far and decode `d` accordingly.
VoiceVisitD(L, d) ==
    IF L.event # None THEN Fail(L, DuplicateField("d"))
    ELSE IF L.op = None THEN Fail(L, MissingField("op"))
    ELSE LET r == VoiceMatch(L.op[1], d)
         IN  IF r.kind = "Err" THEN Fail(L, r.error)
             ELSE [L EXCEPT !.event = Some(r.value)]

\* Wildcard arm: map.next_value::<IgnoredAny>()?, the value is dropped.
VoiceVisitOther(L, v) == L

VoiceKnownKeys == {"op", "d"}

\* One turn of the while-let loop.
VoiceVisitEntry(L, e) ==
    CASE e.key = "op" -> VoiceVisitOp(L, e.val)
      [] e.key = "d" -> VoiceVisitD(L, e.val)
      [] OTHER -> VoiceVisitOther(L, e.val)

\* event.ok_or_else(|| de::Error::missing_field("d"))
VoiceFinish(L) ==
    IF L.event = None THEN Err(MissingField("d")) ELSE Ok(L.event[1])

\* visit_map as a function of the whole frame.
RECURSIVE VoiceVisitMap(_, _)
VoiceVisitMap(L, m) ==
    IF m = <<>> THEN VoiceFinish(L)
    ELSE LET n == VoiceVisitEntry(L, Head(m))
         IN  IF n.err # None THEN Err(n.err[1]) ELSE VoiceVisitMap(n, Tail(m))

\* voice::Event::deserialize on a frame.
VoiceDecodeFrame(f) == VoiceVisitMap(VoiceInitLocals, f)

\* The variants with a body record.
VoiceBodyVariants == {"Ready", "SessionDescription", "Speaking", "HeartbeatAck", "Hello"}

\* Entries of the voice frames whose keys come in any order and number.
VoiceOpValues == {2, 9, 42}
VoiceDValues == {JsonNull, JsonObject, VoiceBodyOf("Ready"), VoiceBodyOf("Hello")}
VoiceEntries ==
    {Entry("op", v) : v \in VoiceOpValues} \cup {Entry("d", v) : v \in VoiceDValues}
    \cup {Entry("v", JsonScalar), Entry("x", JsonObject)}

\* Every voice frame of at most MaxLen entries over VoiceEntries.
VoiceFrames == UNION {[1..n -> VoiceEntries] : n \in 0..MaxLen}

\* The two-key frames over every operation code and `d`, in both key orders.
VoiceAllD ==
    {JsonNull, JsonArray, JsonScalar, JsonObject}
    \cup {VoiceBodyOf(v) : v \in VoiceBodyVariants}
VoiceWireFrame(o, d) == <<Entry("op", o), Entry("d", d)>>
VoiceWireFrames ==
    {VoiceWireFrame(o, d) : o \in 0..U8Max, d \in VoiceAllD}
    \cup {<<Entry("d", d), Entry("op", o)>> : o \in 0..U8Max, d \in VoiceAllD}

\* The voice decoder as a state machine over frame, map, op, event, result.
VoiceLocals == [op |-> op, event |-> event, err |-> None]

VoiceSetLocals(L) ==
    /\ op' = L.op
    /\ event' = L.event

\* Entry into visit_map: the locals are declared afresh.
VoiceDeserialize(f) ==
    /\ frame' = f
    /\ map' = f
    /\ VoiceSetLocals(VoiceInitLocals)
    /\ result' = None
    /\ pc' = "voice"

VoiceStep(n) ==
    IF n.err # None
    THEN /\ result' = Some(Err(n.err[1]))
         /\ pc' = "done"
         /\ UNCHANGED <<frame, map, op, event>>
    ELSE /\ VoiceSetLocals(n)
         /\ map' = Tail(map)
         /\ UNCHANGED <<frame, result, pc>>

VoiceHasKey == pc = "voice" /\ map # <<>>

VoiceKeyOp ==
    /\ VoiceHasKey
    /\ Head(map).key = "op"
    /\ VoiceStep(VoiceVisitOp(VoiceLocals, Head(map).val))
    /\ UNCHANGED <<t, sequence, payload, log, input, output>>

VoiceKeyD ==
    /\ VoiceHasKey
    /\ Head(map).key = "d"
    /\ VoiceStep(VoiceVisitD(VoiceLocals, Head(map).val))
    /\ UNCHANGED <<t, sequence, payload, log, input, output>>

VoiceKeyOther ==
    /\ VoiceHasKey
    /\ Head(map).key \notin VoiceKnownKeys
    /\ VoiceStep(VoiceVisitOther(VoiceLocals, Head(map).val))
    /\ UNCHANGED <<t, sequence, payload, log, input, output>>

VoiceEndOfMap ==
    /\ pc = "voice"
    /\ map = <<>>
    /\ result' = Some(VoiceFinish(VoiceLocals))
    /\ pc' = "done"
    /\ UNCHANGED <<frame, map, op, event, t, sequence, payload, log, input, output>>

VoiceStart ==
    /\ pc = "idle"
    /\ \E f \in VoiceFrames \cup VoiceWireFrames : VoiceDeserialize(f)
    /\ UNCHANGED <<t, sequence, payload, log, input, output>>

VoiceNext ==
    \/ VoiceStart
    \/ VoiceKeyOp
    \/ VoiceKeyD
    \/ VoiceKeyOther
    \/ VoiceEndOfMap

SpecVoice == Init /\ [][VoiceNext]_vars

----------------------------------------------------------------------------
(* The voice classification table                                          *)

\* The documented table of voice operation codes; "Unknown" off the table.
VoiceTable(o) ==
    CASE o = 2 -> "Ready"
      [] o = 4 -> "SessionDescription"
      [] o = 5 -> "Speaking"
      [] o = 6 -> "HeartbeatAck"
      [] o = 8 -> "Hello"
      [] o = 9 -> "Resumed"
      [] OTHER -> "Unknown"

\* C12: the voice decoder classifies by the documented table, for every
\* 8-bit op.  Whenever `d` has been decoded the event's variant is the
\* table's for the op held, Unknown carries that op number and no other
\* variant carries one, Resumed and Unknown keep nothing of `d`; a body
\* that fails to decode is the body of the table's variant; and a frame
\* {op, d} whose op is 9 or off the table decodes whatever `d` is.
C12_VoiceClassificationIsTable ==
    /\ event # None =>
            /\ event[1].variant = VoiceTable(op[1])
            /\ event[1].code =
                    IF VoiceTable(op[1]) = "Unknown" THEN Some(op[1]) ELSE None
            /\ event[1].data =
                    IF VoiceTable(op[1]) \in VoiceBodyVariants
                    THEN VoiceBody(VoiceTable(op[1])) ELSE ""
    /\ (Done /\ Outcome.kind = "Err" /\ Outcome.error.kind = "BodyError") =>
            /\ Outcome.error.field = VoiceTable(op[1])
            /\ VoiceTable(op[1]) \in VoiceBodyVariants
    /\ (Done /\ Len(frame) = 2 /\ frame[1].key = "op" /\ frame[2].key = "d"
             /\ VoiceTable(frame[1].val) \notin VoiceBodyVariants) =>
            /\ Succeeded
            /\ Outcome.value.variant = VoiceTable(frame[1].val)

\* The frame {"op":9,"d":[...]} decoded to Resumed.
C12_Witness ==
    /\ Succeeded
    /\ frame = VoiceWireFrame(9, JsonArray)
    /\ Outcome.value = [variant |-> "Resumed", data |-> "", code |-> None]

----------------------------------------------------------------------------
(* Voice key order                                                         *)

\* C13: a voice frame with the two keys op and d decodes to the same Event
\* (or fails with the same error) in both orders of its keys.
C13_VoiceKeyOrderIndependent ==
    (Done /\ Len(frame) = 2 /\ Keys(frame) = {"op", "d"}) =>
        \A g \in Reorderings(frame) : VoiceDecodeFrame(g) = Outcome

----------------------------------------------------------------------------
(* Voice duplicate and missing keys                                        *)

\* Entry j of the voice frame repeats the key op or d of an earlier entry.
VoiceRepeats(f, j) ==
    /\ f[j].key \in VoiceKnownKeys
    /\ \E i \in 1..(j - 1) : f[i].key = f[j].key

VoiceIsKnown(e) == e.key \in VoiceKnownKeys

\* C14: the voice decoder's duplicate and missing-field rules.  When the
\* decoder reaches a second `op` or a second `d` the decode fails with
\* DuplicateField of that key, and it never reads past one; a frame
\* without `d` fails with MissingField("d") unless a duplicate-field error
\* came first; and keys other than op and d are ignored: a frame decodes
\* to what the frame without them decodes to.
C14_VoiceDuplicateMissingRules ==
    /\ \A j \in DOMAIN frame :
            (j <= Consumed /\ pc \in {"voice", "done"}) => ~VoiceRepeats(frame, j)
    /\ Done =>
            /\ \A j \in DOMAIN frame :
                    (j = Consumed + 1 /\ VoiceRepeats(frame, j)) =>
                        Outcome = Err(DuplicateField(frame[j].key))
            /\ (~Has(frame, "d") /\ ~DuplicateError(Outcome)) =>
                    Outcome = Err(MissingField("d"))
            /\ Outcome = VoiceDecodeFrame(SelectSeq(frame, VoiceIsKnown))

\* A frame with an unknown key between its op and two `d` failed at the
\* second `d`.
C14_Witness ==
    /\ Done
    /\ Len(frame) = 4
    /\ frame[1].key = "op" /\ frame[2].key = "x"
    /\ frame[3].key = "d" /\ frame[4].key = "d"
    /\ Outcome = Err(DuplicateField("d"))

----------------------------------------------------------------------------
(* Frames decoded one after another                                        *)
(* A caller (the connection's read loop) hands each frame it receives to   *)
(* Payload::deserialize or to voice::Event::deserialize and records what   *)
(* it got back; log is that record, one entry per frame, in order.  The    *)
(* variable op holds the `op` local of whichever visitor is running.       *)

\* The number of frames of a session.
MaxFrames == 3

\* Gateway frames of a session: decoding, and failing at each place a
\* decode can fail (end of map, body of `d`, `d` before `op`, duplicate
\* after an unknown key).
SessionGatewayFrames ==
    {WireFrame(None, None, 10, BodyOf("Hello")),
     WireFrame(Some("READY"), Some(1), 0, BodyOf("Ready")),
     WireFrame(Some("READY"), Some(2), 0, JsonNull),
     <<Entry("s", Some(2)), Entry("op", 0), Entry("t", Some("READY"))>>,
     <<Entry("d", JsonNull), Entry("op", 10)>>,
     <<Entry("op", 42), Entry("v", JsonScalar), Entry("d", JsonNull),
       Entry("d", JsonNull)>>}

\* Voice frames of a session, likewise.
SessionVoiceFrames ==
    {VoiceWireFrame(8, VoiceBodyOf("Hello")),
     VoiceWireFrame(9, JsonNull),
     VoiceWireFrame(2, JsonObject),
     <<Entry("op", 2)>>,
     <<Entry("d", JsonNull), Entry("op", 9)>>,
     <<Entry("op", 42), Entry("x", JsonObject), Entry("d", JsonNull),
       Entry("op", 42)>>}

LogEntry(dec, f) == [decoder |-> dec, frame |-> f, outcome |-> None]

\* The caller decodes the next gateway frame.
SessionGateway ==
    /\ pc = "idle"
    /\ Len(log) < MaxFrames
    /\ \E f \in SessionGatewayFrames :
            /\ Deserialize(f)
            /\ log' = Append(log, LogEntry("gateway", f))
    /\ UNCHANGED <<event, input, output>>

\* The caller decodes the next voice frame.
SessionVoice ==
    /\ pc = "idle"
    /\ Len(log) < MaxFrames
    /\ \E f \in SessionVoiceFrames :
            /\ VoiceDeserialize(f)
            /\ log' = Append(log, LogEntry("voice", f))
    /\ UNCHANGED <<t, sequence, payload, input, output>>

\* deserialize returns: the caller has the outcome and goes on.
Return ==
    /\ pc = "done"
    /\ log # <<>>
    /\ log' = [log EXCEPT ![Len(log)].outcome = result]
    /\ pc' = "idle"
    /\ UNCHANGED <<frame, map, t, sequence, op, payload, result, event, input, output>>

SessionNext ==
    \/ SessionGateway
    \/ SessionVoice
    \/ KeyT
    \/ KeyS
    \/ KeyOp
    \/ KeyD
    \/ KeyOther
    \/ EndOfMap
    \/ VoiceKeyOp
    \/ VoiceKeyD
    \/ VoiceKeyOther
    \/ VoiceEndOfMap
    \/ Return

SpecSession == Init /\ [][SessionNext]_vars

\* The decode of a frame on its own, by the decoder it was handed to.
DecodeAlone(dec, f) ==
    IF dec = "gateway" THEN DecodeFrame(f) ELSE VoiceDecodeFrame(f)

Returned(i) == log[i].outcome # None

\* C11: the decoders keep no state from one frame to the next.  In every
\* sequence of frames decoded one after another, the outcome of each frame
\* (value or error) is that of decoding the frame alone, whatever was
\* decoded or failed before it; so the same frame handed twice to the same
\* decoder gives the same outcome twice.
C11_NoCrossFrameState ==
    \A i \in DOMAIN log :
        Returned(i) =>
            /\ log[i].outcome[1] = DecodeAlone(log[i].decoder, log[i].frame)
            /\ \A j \in DOMAIN log :
                    (Returned(j) /\ log[j].decoder = log[i].decoder
                                 /\ log[j].frame = log[i].frame) =>
                        log[j].outcome = log[i].outcome

\* A frame decoded, then a frame failed, then the first frame decoded again
\* to the same event.
C11_Witness ==
    /\ Len(log) = 3
    /\ Returned(3)
    /\ log[1].frame = log[3].frame
    /\ log[1].decoder = "gateway" /\ log[3].decoder = "gateway"
    /\ log[1].outcome[1].kind = "Ok"
    /\ log[2].outcome[1].kind = "Err"
    /\ log[3].outcome[1].kind = "Ok"

----------------------------------------------------------------------------
(* The command encoders (src/src/command.rs and voice.rs, mod command)     *)
(* A command is [set, kind, body]: set is "gateway" or "voice", kind the   *)
(* variant, body the payload record it wraps, abstracted to a number: the  *)
(* sequence or nonce of a heartbeat, an index among the values of the      *)
(* payload struct otherwise.  The encoder's output is the sequence of      *)
(* fields handed to the serializer so far.                                  *)

\* The payload values of each command kind are 0..MaxPayload.
MaxPayload == 3

GatewayKinds ==
    {"Heartbeat", "Identify", "UpdateStatus", "UpdateVoiceState", "Resume",
     "RequestGuildMembers"}
VoiceKinds == {"Identify", "SelectProtocol", "Heartbeat", "Speaking", "Resume"}

Command(set, kind, body) == [set |-> set, kind |-> kind, body |-> body]

Commands ==
    {Command("gateway", k, b) : k \in GatewayKinds, b \in 0..MaxPayload}
    \cup {Command("voice", k, b) : k \in VoiceKinds, b \in 0..MaxPayload}

\* A JSON number, and the JSON object a derived Serialize writes for value
\* b of the payload struct ty.
JsonNumber(n) == [shape |-> "number", of |-> "", value |-> n]
JsonStruct(ty, b) == [shape |-> "object", of |-> ty, value |-> b]

\* The voice op with Heartbeat sharing the code of the gateway's.
VoiceCommandOpShared(c) ==
    CASE c.kind = "Identify" -> 0
      [] c.kind = "SelectProtocol" -> 1
      [] c.kind = "Heartbeat" -> 1
      [] c.kind = "Speaking" -> 5
      [] c.kind = "Resume" -> 7

\* command::Command::op
CommandOp(c) ==
    CASE c.kind = "Heartbeat" -> 1
      [] c.kind = "Identify" -> 2
      [] c.kind = "UpdateStatus" -> 3
      [] c.kind = "UpdateVoiceState" -> 4
      [] c.kind = "Resume" -> 6
      [] c.kind = "RequestGuildMembers" -> 8

\* voice::command::Command::op
VoiceCommandOp(c) ==
    CASE c.kind = "Identify" -> 0
      [] c.kind = "SelectProtocol" -> 1
      [] c.kind = "Heartbeat" -> 3
      [] c.kind = "Speaking" -> 5
      [] c.kind = "Resume" -> 7

\* self.op() of a command of either set.
OpOf(c) == IF c.set = "gateway" THEN CommandOp(c) ELSE VoiceCommandOp(c)

\* The payload encoding with Heartbeat lacking #[serde(transparent)]: a
\* struct of one field.
SerializePayloadNamed(c) == JsonStruct(c.set \o "::" \o c.kind, c.body)

\* Serialize of the payload a variant wraps: Heartbeat is transparent over
\* its u64, the others are derived structs.
SerializePayload(c) ==
    IF c.kind = "Heartbeat" THEN JsonNumber(c.body)
    ELSE JsonStruct(c.set \o "::" \o c.kind, c.body)

\* serializer.serialize_struct("Command", 2)?
SerializeStruct ==
    /\ pc = "idle"
    /\ \E c \in Commands : input' = Some(c)
    /\ output' = <<>>
    /\ pc' = "struct"
    /\ UNCHANGED <<frame, map, t, sequence, op, payload, result, event, log>>

\* state.serialize_field("op", &self.op())?
SerializeFieldOp ==
    /\ pc = "struct"
    /\ output' = Append(output, Entry("op", JsonNumber(OpOf(input[1]))))
    /\ pc' = "op"
    /\ UNCHANGED <<frame, map, t, sequence, op, payload, result, event, log, input>>

\* match self { Command::V(d) => state.serialize_field("d", d)?, ... }
SerializeFieldD ==
    /\ pc = "op"
    /\ output' = Append(output, Entry("d", SerializePayload(input[1])))
    /\ pc' = "d"
    /\ UNCHANGED <<frame, map, t, sequence, op, payload, result, event, log, input>>

\* state.end()
SerializeEnd ==
    /\ pc = "d"
    /\ result' = Some(Ok(output))
    /\ pc' = "done"
    /\ UNCHANGED <<frame, map, t, sequence, op, payload, event, log, input, output>>

CommandNext ==
    \/ SerializeStruct
    \/ SerializeFieldOp
    \/ SerializeFieldD
    \/ SerializeEnd

SpecCommand == Init /\ [][CommandNext]_vars

\* The documented operation codes, (set, kind, code).
OpTable ==
    {<<"gateway", "Heartbeat", 1>>, <<"gateway", "Identify", 2>>,
     <<"gateway", "UpdateStatus", 3>>, <<"gateway", "UpdateVoiceState", 4>>,
     <<"gateway", "Resume", 6>>, <<"gateway", "RequestGuildMembers", 8>>,
     <<"voice", "Identify", 0>>, <<"voice", "SelectProtocol", 1>>,
     <<"voice", "Heartbeat", 3>>, <<"voice", "Speaking", 5>>,
     <<"voice", "Resume", 7>>}

\* C15: Command::op is the documented code of the command's kind, in the
\* gateway set and in the voice set; within a set two commands have the
\* same code exactly when they are of the same kind, whatever they carry.
C15_OpCodesFixed ==
    input # None =>
        LET c == input[1]
        IN  /\ <<c.set, c.kind, OpOf(c)>> \in OpTable
            /\ Len(output) >= 1 => output[1] = Entry("op", JsonNumber(OpOf(c)))
            /\ \A c2 \in Commands :
                    c2.set = c.set => (OpOf(c2) = OpOf(c) <=> c2.kind = c.kind)

\* A voice heartbeat has had its op written: 3.
C15_Witness ==
    /\ pc = "op"
    /\ input[1].set = "voice" /\ input[1].kind = "Heartbeat"
    /\ input[1].body = 2
    /\ output = <<Entry("op", JsonNumber(3))>>

\* C16: the encoding of a command is an envelope of exactly two fields,
\* `op` first and `d` second, written in that order; op is Command::op()
\* of the value and d is the encoding of the payload; a heartbeat's d is
\* the bare number, {"op":1,"d":n} for the gateway and {"op":3,"d":n} for
\* voice.
C16_EnvelopeOpThenData ==
    input # None =>
        LET c == input[1]
            code == (CHOOSE row \in OpTable : row[1] = c.set /\ row[2] = c.kind)[3]
        IN  /\ pc = "struct" => output = <<>>
            /\ pc = "op" => output = <<Entry("op", JsonNumber(code))>>
            /\ pc \in {"d", "done"} =>
                    /\ Len(output) = 2
                    /\ output[1] = Entry("op", JsonNumber(code))
                    /\ output[2].key = "d"
                    /\ output[2].val.value = c.body
                    /\ IF c.kind = "Heartbeat"
                       THEN output[2].val = JsonNumber(c.body)
                       ELSE /\ output[2].val.shape = "object"
                            /\ output[2].val.of = c.set \o "::" \o c.kind
            /\ pc = "done" => result = Some(Ok(output))

\* A gateway heartbeat with sequence 3 was encoded as {"op":1,"d":3}.
C16_Witness ==
    /\ pc = "done"
    /\ input = Some(Command("gateway", "Heartbeat", 3))
    /\ result = Some(Ok(<<Entry("op", JsonNumber(1)), Entry("d", JsonNumber(3))>>))

----------------------------------------------------------------------------
(* 64-bit unsigned integers                                                *)
(* A u64 is the set of the positions of its 1 bits, a subset of 0..63, so  *)
(* that shifts, masks and overflow are what they are on the machine word.  *)
(* A string is the sequence of its characters.                             *)

\* The width of u64 and of u32.
U64Width == 64
U32Width == 32

RECURSIVE Pow2(_)
Pow2(k) == IF k = 0 THEN 1 ELSE 2 * Pow2(k - 1)

\* The u64 of a numeral (below 2^31), and back for a value below 2^31.
FromNat(n) == {i \in 0..30 : (n \div Pow2(i)) % 2 = 1}

RECURSIVE ToNat(_)
ToNat(v) ==
    IF v = {} THEN 0
    ELSE LET i == CHOOSE j \in v : TRUE IN Pow2(i) + ToNat(v \ {i})

\* v >> k, v << k (unbounded: positions past the width are an overflow),
\* a & b, a | b, and the `as` cast to an unsigned type of w bits.
Shr(v, k) == {i - k : i \in {j \in v : j >= k}}
Shl(v, k) == {i + k : i \in v}
BitAnd(a, b) == a \cap b
BitOr(a, b) == a \cup b
CastTo(v, w) == {i \in v : i < w}

\* The bits of a + b from position i up with carry c; position U64Width
\* is the carry out.
RECURSIVE AddFrom(_, _, _, _)
AddFrom(a, b, i, c) ==
    IF i = U64Width THEN (IF c = 1 THEN {U64Width} ELSE {})
    ELSE LET x == (IF i \in a THEN 1 ELSE 0) + (IF i \in b THEN 1 ELSE 0) + c
         IN  (IF x % 2 = 1 THEN {i} ELSE {}) \cup AddFrom(a, b, i + 1, x \div 2)

\* u64::checked_add
CheckedAdd(a, b) ==
    LET sum == AddFrom(a, b, 0, 0)
    IN  IF U64Width \in sum THEN None ELSE Some(sum)

\* u64::checked_mul(10), as 8a + 2a.
CheckedMulTen(a) ==
    IF \E i \in Shl(a, 3) : i >= U64Width THEN None
    ELSE CheckedAdd(Shl(a, 3), Shl(a, 1))

\* Quotient and remainder of v by a numeral d below 2^30, by long
\* division from bit i down.
RECURSIVE DivModFrom(_, _, _, _)
DivModFrom(v, d, i, acc) ==
    IF i < 0 THEN acc
    ELSE LET r == 2 * acc.rem + (IF i \in v THEN 1 ELSE 0)
         IN  IF r >= d
             THEN DivModFrom(v, d, i - 1, [quot |-> acc.quot \cup {i}, rem |-> r - d])
             ELSE DivModFrom(v, d, i - 1, [quot |-> acc.quot, rem |-> r])

DivMod(v, d) == DivModFrom(v, d, U64Width - 1, [quot |-> {}, rem |-> 0])

IsDigit(c) == \E d \in 1..10 : DecimalDigit[d] = c
DigitValue(c) == (CHOOSE d \in 1..10 : DecimalDigit[d] = c) - 1

ParseIntError(k) == [kind |-> "Err", error |-> k]

\* The digit loop of u64::from_str: checked_mul(10), checked_add(digit).
RECURSIVE ParseDigits(_, _)
ParseDigits(acc, s) ==
    IF s = <<>> THEN Ok(acc)
    ELSE IF ~IsDigit(Head(s)) THEN ParseIntError("InvalidDigit")
    ELSE LET m == CheckedMulTen(acc)
         IN  IF m = None THEN ParseIntError("PosOverflow")
             ELSE LET a == CheckedAdd(m[1], FromNat(DigitValue(Head(s))))
                  IN  IF a = None THEN ParseIntError("PosOverflow")
                      ELSE ParseDigits(a[1], Tail(s))

\* s.parse::<u64>(): empty and a lone sign are errors, a leading `+` is
\* skipped, a leading `-` is no digit of an unsigned type.
ParseU64(s) ==
    IF s = <<>> THEN ParseIntError("Empty")
    ELSE IF Len(s) = 1 /\ s[1] \in {"+", "-"} THEN ParseIntError("InvalidDigit")
    ELSE IF s[1] = "+" THEN ParseDigits({}, Tail(s))
    ELSE ParseDigits({}, s)

\* format!("{}", v) for v: u64, the decimal digits without leading zeros.
RECURSIVE FormatU64(_)
FormatU64(v) ==
    LET qr == DivMod(v, 10)
    IN  IF qr.quot = {} THEN <<DecimalDigit[qr.rem + 1]>>
        ELSE Append(FormatU64(qr.quot), DecimalDigit[qr.rem + 1])

\* The value of a decimal numeral of the source too large to be written
\* as a numeral here.
U64Literal(s) == ParseDigits({}, s).value

----------------------------------------------------------------------------
(* Snowflake (src/src/types.rs)                                            *)
(* A token of the data format is [kind, bits, chars]: kind "u64" carries   *)
(* bits, kind "str" carries chars, the other kinds carry nothing that the  *)
(* visitor looks at.  A Snowflake is its u64.                              *)

Token(kind, bits, chars) == [kind |-> kind, bits |-> bits, chars |-> chars]
U64Token(v) == Token("u64", v, <<>>)
StrToken(s) == Token("str", {}, s)

\* The token kinds SnowflakeVisitor has no visit method for: a negative
\* integer, a float, a bool, null, an array, an object.
OtherKinds == {"i64", "f64", "bool", "unit", "seq", "map"}

InvalidValue(ty) == [kind |-> "InvalidValue", field |-> ty]
InvalidType(ty) == [kind |-> "InvalidType", field |-> ty]

\* const DISCORD_EPOCH: u64 = 1_420_070_400_000
DISCORD_EPOCH == U64Literal(<<"1", "4", "2", "0", "0", "7", "0", "4", "0", "0", "0", "0", "0">>)

\* The string parser refusing a sign, as a parser of digits only would.
SnowflakeFromStrDigitsOnly(s) ==
    IF s = <<>> THEN ParseIntError("Empty") ELSE ParseDigits({}, s)

\* val.parse() of visit_str, Snowflake::from_str: s.parse::<u64>()
SnowflakeFromStr(s) == ParseU64(s)

\* visit_u64
SnowflakeVisitU64(val) == Ok(val)

\* visit_str
SnowflakeVisitStr(val) ==
    LET r == SnowflakeFromStr(val)
    IN  IF r.kind = "Ok" THEN Ok(r.value) ELSE Err(InvalidValue("Snowflake"))

\* deserializer.deserialize_any(SnowflakeVisitor): the visit method of the
\* token's kind, the default (an invalid-type error) where there is none.
SnowflakeDeserialize(tok) ==
    CASE tok.kind = "u64" -> SnowflakeVisitU64(tok.bits)
      [] tok.kind = "str" -> SnowflakeVisitStr(tok.chars)
      [] OTHER -> Err(InvalidType("Snowflake"))

\* Serialize writing the number instead of its decimal string.
SnowflakeSerializeNumber(v) == U64Token(v)

\* serializer.serialize_str(&format!("{}", self.0))
SnowflakeSerialize(v) == StrToken(FormatU64(v))

\* date_time: (self.0 >> 22) + DISCORD_EPOCH, milliseconds since the Unix
\* epoch; None stands for the panic of an overflowing sum.
DateTimeOf(v) == CheckedAdd(Shr(v, 22), DISCORD_EPOCH)

\* worker with the shift of process.
WorkerShiftedAsProcess(v) == CastTo(Shr(BitAnd(v, FromNat(4063232)), 12), 8)

\* worker: ((self.0 & 0x3E0000) >> 17) as u8
Worker(v) == CastTo(Shr(BitAnd(v, FromNat(4063232)), 17), 8)

\* process: ((self.0 & 0x1F000) >> 12) as u8
Process(v) == CastTo(Shr(BitAnd(v, FromNat(126976)), 12), 8)

\* increment cast to u8, as worker and process are.
IncrementAsByte(v) == CastTo(BitAnd(v, FromNat(4095)), 8)

\* increment: (self.0 & 0xFFF) as u16
Increment(v) == CastTo(BitAnd(v, FromNat(4095)), 16)

\* The identifier of the crate's test, and the largest u64.
FixtureId == U64Literal(<<"1", "7", "5", "9", "2", "8", "8", "4", "7", "2", "9", "9", "1", "1", "7", "0", "6", "3">>)
U64Max == 0..(U64Width - 1)

\* The length of the strings over SnowflakeChars that are decoded.
MaxStr == 3

SnowflakeChars == {"0", "1", "9", "+", "-", "a"}

\* The strings decoded: every short string over SnowflakeChars, and long
\* numerals around the largest u64.
SnowflakeStrings ==
    UNION {[1..n -> SnowflakeChars] : n \in 0..MaxStr}
    \cup {<<"1", "7", "5", "9", "2", "8", "8", "4", "7", "2", "9", "9", "1", "1", "7", "0", "6", "3">>,
          <<"1", "8", "4", "4", "6", "7", "4", "4", "0", "7", "3", "7", "0", "9", "5", "5", "1", "6", "1", "5">>,
          <<"1", "8", "4", "4", "6", "7", "4", "4", "0", "7", "3", "7", "0", "9", "5", "5", "1", "6", "1", "6">>,
          <<"9", "2", "2", "3", "3", "7", "2", "0", "3", "6", "8", "5", "4", "7", "7", "5", "8", "0", "8">>,
          <<"9", "9", "9", "9", "9", "9", "9", "9", "9", "9", "9", "9", "9", "9", "9", "9", "9", "9", "9", "9">>,
          <<"0", "0", "0", "0", "0", "0", "0", "0", "0", "0", "0", "0", "0", "0", "0", "0", "0", "0", "0", "0", "0", "4", "2">>,
          <<"1", "0", "0", "0", "0", "0", "0", "0", "0", "0", "0", "0", "0", "0", "0", "0", "0", "0", "0", "0", "0">>,
          <<"+", "1", "8", "4", "4", "6", "7", "4", "4", "0", "7", "3", "7", "0", "9", "5", "5", "1", "6", "1", "5">>}

\* A u64 put together from its four fields.
Compose(ts, w, p, i) ==
    BitOr(BitOr(Shl(ts, 22), Shl(FromNat(w), 17)), BitOr(Shl(FromNat(p), 12), FromNat(i)))

\* The u64 values decoded: every combination of a few values of each
\* field, and the largest u64.
SnowflakeValues ==
    {Compose(ts, w, p, i) :
        ts \in {{}, FromNat(1), Shr(FixtureId, 22), 0..41},
        w \in {0, 1, 31}, p \in {0, 1, 31}, i \in {0, 7, 4095}}
    \cup {FixtureId, U64Max}

SnowflakeTokens ==
    {StrToken(s) : s \in SnowflakeStrings}
    \cup {U64Token(v) : v \in SnowflakeValues}
    \cup {Token(k, {}, <<>>) : k \in OtherKinds}

\* What a call on a decoded Snowflake returned.
Returns(call, tok) == [call |-> call, tok |-> tok]

\* Snowflake::deserialize on one token.
SnowflakeDecode ==
    /\ pc = "idle"
    /\ \E tok \in SnowflakeTokens :
            /\ input' = Some(tok)
            /\ result' = Some(SnowflakeDeserialize(tok))
    /\ pc' = "decoded"
    /\ UNCHANGED <<frame, map, t, sequence, op, payload, event, log, output>>

Decoded == pc = "decoded" /\ result[1].kind = "Ok"

\* Snowflake::serialize of the decoded value.
SnowflakeEncode ==
    /\ Decoded
    /\ output' = Some(Returns("serialize", SnowflakeSerialize(result[1].value)))
    /\ pc' = "done"
    /\ UNCHANGED <<frame, map, t, sequence, op, payload, event, log, input, result>>

SnowflakeDateTime ==
    /\ Decoded
    /\ LET ms == DateTimeOf(result[1].value)
       IN  output' = IF ms = None THEN Some(Returns("panic", Token("unit", {}, <<>>)))
                     ELSE Some(Returns("date_time", U64Token(ms[1])))
    /\ pc' = "done"
    /\ UNCHANGED <<frame, map, t, sequence, op, payload, event, log, input, result>>

SnowflakeWorker ==
    /\ Decoded
    /\ output' = Some(Returns("worker", U64Token(Worker(result[1].value))))
    /\ pc' = "done"
    /\ UNCHANGED <<frame, map, t, sequence, op, payload, event, log, input, result>>

SnowflakeProcess ==
    /\ Decoded
    /\ output' = Some(Returns("process", U64Token(Process(result[1].value))))
    /\ pc' = "done"
    /\ UNCHANGED <<frame, map, t, sequence, op, payload, event, log, input, result>>

SnowflakeIncrement ==
    /\ Decoded
    /\ output' = Some(Returns("increment", U64Token(Increment(result[1].value))))
    /\ pc' = "done"
    /\ UNCHANGED <<frame, map, t, sequence, op, payload, event, log, input, result>>

SnowflakeNext ==
    \/ SnowflakeDecode
    \/ SnowflakeEncode
    \/ SnowflakeDateTime
    \/ SnowflakeWorker
    \/ SnowflakeProcess
    \/ SnowflakeIncrement

SpecSnowflake == Init /\ [][SnowflakeNext]_vars

----------------------------------------------------------------------------
(* Vocabulary of the Snowflake properties                                  *)

\* The token decoded, the call made on the decoded value and what it gave.
Input == input[1]
Called(call) == pc = "done" /\ output[1].call = call
Out == output[1].tok
HasDecoded == pc \in {"decoded", "done"}

\* The characters of a string as one string.
RECURSIVE Concat(_)
Concat(s) == IF s = <<>> THEN "" ELSE Head(s) \o Concat(Tail(s))

AllDigits(s) == \A i \in DOMAIN s : IsDigit(s[i])

RECURSIVE StripZeros(_)
StripZeros(s) == IF Len(s) > 1 /\ Head(s) = "0" THEN StripZeros(Tail(s)) ELSE s

\* The digits of 2^64 - 1.
MaxDigits == <<"1", "8", "4", "4", "6", "7", "4", "4", "0", "7", "3", "7", "0", "9", "5", "5", "1", "6", "1", "5">>

\* a > b for numerals of the same length.
RECURSIVE DigitsGreater(_, _)
DigitsGreater(a, b) ==
    /\ a # <<>>
    /\ \/ DigitValue(Head(a)) > DigitValue(Head(b))
       \/ Head(a) = Head(b) /\ DigitsGreater(Tail(a), Tail(b))

\* The numeral s stands for a value above 2^64 - 1.
ExceedsU64(s) ==
    LET d == StripZeros(s)
    IN  Len(d) > Len(MaxDigits) \/ (Len(d) = Len(MaxDigits) /\ DigitsGreater(d, MaxDigits))

\* s is the decimal string of a u64: digits, no leading zero, in range.
IsDecimalString(s) ==
    s # <<>> /\ AllDigits(s) /\ StripZeros(s) = s /\ ~ExceedsU64(s)

\* C17: the round trip of an identifier.  Whenever a decoded Snowflake is
\* encoded the token written is a string, never a number; decoded from the
\* decimal string of a u64 it is encoded as exactly that string (and every
\* such string decodes); decoded from the number v it is encoded as the
\* decimal string of v: a decimal string that parses to v, the numeral of
\* v where v is below 2^31, the digits of 2^64 - 1 for the largest v.
C17_SnowflakeRoundTrip ==
    /\ (HasDecoded /\ Input.kind = "str" /\ IsDecimalString(Input.chars)) =>
            result[1].kind = "Ok"
    /\ Called("serialize") =>
            /\ Out.kind = "str"
            /\ (Input.kind = "str" /\ IsDecimalString(Input.chars)) =>
                    Out.chars = Input.chars
            /\ Input.kind = "u64" =>
                    /\ IsDecimalString(Out.chars)
                    /\ ParseU64(Out.chars) = Ok(Input.bits)
                    /\ Input.bits \subseteq 0..30 =>
                            Concat(Out.chars) = ToString(ToNat(Input.bits))
                    /\ Input.bits = U64Max => Out.chars = MaxDigits

\* The number 2^64 - 1 was decoded and encoded as "18446744073709551615".
C17_Witness ==
    /\ Called("serialize")
    /\ Input = U64Token(U64Max)
    /\ Concat(Out.chars) = "18446744073709551615"

\* C18: Snowflake decode accepts a u64 token, taken as the value, and a
\* string token that parses as a u64; a string that is empty, has a
\* character that is no digit, or stands for a value above 2^64 - 1 fails
\* with InvalidValue; a token of any other kind fails.
C18_UnparseableStringFails ==
    HasDecoded =>
        /\ Input.kind = "u64" => result[1] = Ok(Input.bits)
        /\ (Input.kind = "str" /\ IsDecimalString(Input.chars)) =>
                result[1].kind = "Ok"
        /\ (Input.kind = "str"
              /\ (Input.chars = <<>> \/ ~AllDigits(Input.chars) \/ ExceedsU64(Input.chars))) =>
                result[1] = Err(InvalidValue("Snowflake"))
        /\ Input.kind \in OtherKinds => result[1].kind = "Err"

\* A string without the `+` that u64's parser skips.
Unsigned(s) == IF s # <<>> /\ Head(s) = "+" THEN Tail(s) ELSE s

\* The strings u64's parser accepts: digits, at least one, after at most
\* one `+`, standing for a value in range (leading zeros allowed).
Parseable(s) ==
    LET d == Unsigned(s) IN d # <<>> /\ AllDigits(d) /\ ~ExceedsU64(d)

\* C18 (amended): Snowflake decode accepts a u64 token, taken as the
\* value, and exactly the string tokens made of an optional `+` and one or
\* more decimal digits standing for a value up to 2^64 - 1, decoded to
\* that value; every other string fails with InvalidValue and a token of
\* any other kind fails with an invalid-type error.
C18_AcceptsSignAndDigits ==
    HasDecoded =>
        /\ Input.kind = "u64" => result[1] = Ok(Input.bits)
        /\ Input.kind = "str" =>
                IF Parseable(Input.chars)
                THEN /\ result[1].kind = "Ok"
                     /\ FormatU64(result[1].value) = StripZeros(Unsigned(Input.chars))
                ELSE result[1] = Err(InvalidValue("Snowflake"))
        /\ Input.kind \in OtherKinds => result[1] = Err(InvalidType("Snowflake"))

\* The string "+1" decoded to the identifier 1.
C18_Witness ==
    /\ HasDecoded
    /\ Input = StrToken(<<"+", "1">>)
    /\ result[1] = Ok(FromNat(1))

\* Bits lo..hi of v, as a number.
BitField(v, lo, hi) == {i - lo : i \in {j \in v : lo <= j /\ j <= hi}}

\* Days from 1970-01-01 to the civil date y-m-d.
DaysFromCivil(y, m, d) ==
    LET yy == IF m <= 2 THEN y - 1 ELSE y
        era == yy \div 400
        yoe == yy - era * 400
        doy == (153 * ((m + 9) % 12) + 2) \div 5 + d - 1
        doe == yoe * 365 + yoe \div 4 - yoe \div 100 + doy
    IN  era * 146097 + doe - 719468

\* The instant y-m-d h:mi:s.ms UTC as days since 1970-01-01 and
\* milliseconds of the day.
Instant(y, m, d, h, mi, sec, ms) ==
    [quot |-> FromNat(DaysFromCivil(y, m, d)),
     rem |-> ((h * 60 + mi) * 60 + sec) * 1000 + ms]

\* a = b + c modulo each of two primes whose product is above 2^43, which
\* for a and b + c below 2^43 is a = b + c.
IsSum(a, b, c) ==
    \A m \in {4194301, 4194287} :
        DivMod(a, m).rem = (DivMod(b, m).rem + DivMod(c, m).rem) % m

\* C19: the decomposition of an identifier follows the documented layout.
\* For every decoded v: date_time() is the instant (v >> 22) ms after
\* 2015-01-01T00:00:00Z, that is (v >> 22) + 1420070400000 ms after the
\* Unix epoch, and never panics; worker() is bits 17..21 of v, process()
\* bits 12..16, increment() bits 0..11.  For 175928847299117063 they are
\* 2016-04-30T11:18:25.796Z, 1, 0 and 7.
C19_DecompositionIsLayout ==
    pc = "done" =>
        LET v == result[1].value
            fixture == v = FixtureId
        IN  /\ output[1].call # "panic"
            /\ Called("date_time") =>
                    /\ Out.bits \subseteq 0..42
                    /\ IsSum(Out.bits, BitField(v, 22, 63), DISCORD_EPOCH)
                    /\ DivMod(DISCORD_EPOCH, 86400000) = Instant(2015, 1, 1, 0, 0, 0, 0)
                    /\ fixture =>
                        DivMod(Out.bits, 86400000) = Instant(2016, 4, 30, 11, 18, 25, 796)
            /\ Called("worker") =>
                    /\ Out.bits = BitField(v, 17, 21)
                    /\ fixture => ToNat(Out.bits) = 1
            /\ Called("process") =>
                    /\ Out.bits = BitField(v, 12, 16)
                    /\ fixture => ToNat(Out.bits) = 0
            /\ Called("increment") =>
                    /\ Out.bits = BitField(v, 0, 11)
                    /\ fixture => ToNat(Out.bits) = 7

\* The worker of the test's identifier, decoded from its string, was read.
C19_Witness ==
    /\ Called("worker")
    /\ Input.kind = "str"
    /\ result[1].value = FixtureId
    /\ Out = U64Token(FromNat(1))

----------------------------------------------------------------------------
(* The strict flag sets (src/src/bitflags.rs, src/src/types.rs)            *)
(* A flag set's value is its u32 of bits, a set of positions below 32.     *)

\* 1 << k
Flag(k) == Shl(FromNat(1), k)

\* bitflags! { pub struct Intents: u32 { ... } }: the single-bit constants.
IntentsBits ==
    [GUILDS |-> Flag(0), GUILD_MEMBERS |-> Flag(1), GUILD_BANS |-> Flag(2),
     GUILD_EMOJIS |-> Flag(3), GUILD_INTEGRATIONS |-> Flag(4),
     GUILD_WEBHOOKS |-> Flag(5), GUILD_INVITES |-> Flag(6),
     GUILD_VOICE_STATES |-> Flag(7), GUILD_PRESENCES |-> Flag(8),
     GUILD_MESSAGES |-> Flag(9), GUILD_MESSAGE_REACTIONS |-> Flag(10),
     GUILD_MESSAGE_TYPING |-> Flag(11), DIRECT_MESSAGES |-> Flag(12),
     DIRECT_MESSAGE_REACTIONS |-> Flag(13), DIRECT_MESSAGE_TYPING |-> Flag(14),
     MESSAGE_CONTENT |-> Flag(15), GUILD_SCHEDULED_EVENTS |-> Flag(16),
     AUTO_MODERATION_CONFIGURATION |-> Flag(20),
     AUTO_MODERATION_EXECUTION |-> Flag(21)]

\* The union of the named constants ns of a record of constants.
OrOf(consts, ns) == UNION {consts[n] : n \in ns}

\* Intents::GUILD_ALL, DIRECT_MESSAGE_ALL and ALL.
GUILD_ALL ==
    OrOf(IntentsBits,
         {"GUILDS", "GUILD_MEMBERS", "GUILD_BANS", "GUILD_EMOJIS",
          "GUILD_INTEGRATIONS", "GUILD_WEBHOOKS", "GUILD_INVITES",
          "GUILD_VOICE_STATES", "GUILD_PRESENCES", "GUILD_MESSAGES",
          "GUILD_MESSAGE_REACTIONS", "GUILD_MESSAGE_TYPING",
          "GUILD_SCHEDULED_EVENTS"})
DIRECT_MESSAGE_ALL ==
    OrOf(IntentsBits,
         {"DIRECT_MESSAGES", "DIRECT_MESSAGE_REACTIONS", "DIRECT_MESSAGE_TYPING"})
ALL ==
    BitOr(BitOr(GUILD_ALL, DIRECT_MESSAGE_ALL),
          OrOf(IntentsBits, {"MESSAGE_CONTENT", "AUTO_MODERATION_CONFIGURATION",
                             "AUTO_MODERATION_EXECUTION"}))

\* bitflags! { pub struct MessageFlags: u32 { ... } }
MessageFlagsBits ==
    [CROSSPOSTED |-> Flag(0), IS_CROSSPOST |-> Flag(1), SUPPRESS_EMBEDS |-> Flag(2),
     SOURCE_MESSAGE_DELETED |-> Flag(3), URGENT |-> Flag(4)]

\* bitflags! { pub struct SpeakingFlags: u32 { ... } }
SpeakingFlagsBits ==
    [MICROPHONE |-> Flag(0), SOUNDSHARE |-> Flag(1), PRIORITY |-> Flag(2)]

\* bitflags! { pub struct UserFlags: u32 { ... } }
UserFlagsBits ==
    [DISCORD_EMPLOYEE |-> Flag(0), DISCORD_PARTNER |-> Flag(1),
     HYPESQUAD_EVENTS |-> Flag(2), BUG_HUNTER_LEVEL_1 |-> Flag(3),
     HOUSE_BRAVERY |-> Flag(6), HOUSE_BRILLIANCE |-> Flag(7),
     HOUSE_BALANCE |-> Flag(8), EARLY_SUPPORTER |-> Flag(9),
     TEAM_USER |-> Flag(10), SYSTEM |-> Flag(12), BUG_HUNTER_LEVEL_2 |-> Flag(14),
     VERIFIED_BOT |-> Flag(16), VERIFIED_BOT_DEVELOPER |-> Flag(17),
     CERTIFIED_MODERATOR |-> Flag(18), BOT_HTTP_INTERACTIONS |-> Flag(19),
     ACTIVE_DEVELOPER |-> Flag(22)]

\* The flag sets decoded through BitFlagsVisitor with deserialize_u32, and
\* those of them that implement Serialize.
StrictFlagSets == {"Intents", "MessageFlags", "SpeakingFlags"}
SerializableFlagSets == {"Intents", "SpeakingFlags"}

\* T::all(): the union of every constant the set declares.
AllBits(set) ==
    CASE set = "Intents" ->
            BitOr(OrOf(IntentsBits, DOMAIN IntentsBits),
                  BitOr(GUILD_ALL, BitOr(DIRECT_MESSAGE_ALL, ALL)))
      [] set = "MessageFlags" -> OrOf(MessageFlagsBits, DOMAIN MessageFlagsBits)
      [] set = "SpeakingFlags" -> OrOf(SpeakingFlagsBits, DOMAIN SpeakingFlagsBits)
      [] set = "UserFlags" -> OrOf(UserFlagsBits, DOMAIN UserFlagsBits)

\* T::from_bits_truncate in the place of T::from_bits.
FromBitsTruncate(set, bits) == Some(BitAnd(bits, AllBits(set)))

\* T::from_bits: None when a bit outside T::all() is set.
FromBits(set, bits) ==
    IF BitAnd(bits, U64Max \ AllBits(set)) = {} THEN Some(bits) ELSE None

\* u32::try_from(v) for v: u64
TryIntoU32(v) == IF \E i \in v : i >= U32Width THEN None ELSE Some(v)

Custom(msg) == [kind |-> "Custom", field |-> msg]

\* BitFlagsVisitor::visit_u64
BitFlagsVisitU64(set, v) ==
    LET n == TryIntoU32(v)
    IN  IF n = None THEN Err(Custom("invalid value"))
        ELSE LET f == FromBits(set, n[1])
             IN  IF f = None THEN Err(Custom("invalid value")) ELSE Ok(f[1])

\* deserializer.deserialize_u32(BitFlagsVisitor::new()): an unsigned
\* integer token of any width reaches visit_u64, a token of another kind
\* the default of its visit method, an invalid-type error.
FlagsDeserialize(set, tok) ==
    IF tok.kind \in {"u32", "u64"} THEN BitFlagsVisitU64(set, tok.bits)
    ELSE Err(InvalidType(set))

\* serializer.serialize_u32(self.bits()); for UserFlags
\* serializer.serialize_u64(self.bits() as u64)
FlagsSerialize(set, bits) ==
    Token(IF set = "UserFlags" THEN "u64" ELSE "u32", bits, <<>>)

\* The number of bits set in the values decoded.
MaxFlagBits == 3

\* Positions of bits: declared in all three sets, in some, in none, and
\* past the 32-bit width.
FlagPositions == {0, 1, 2, 3, 4, 5, 16, 17, 20, 21, 22, 31, 32, 63}

FlagValues ==
    {v \in SUBSET FlagPositions : Cardinality(v) <= MaxFlagBits}
    \cup {FromNat(69631), GUILD_ALL, ALL, 0..(U32Width - 1), U64Max}

FlagTokens ==
    {Token("u64", v, <<>>) : v \in FlagValues}
    \cup {Token("u32", v, <<>>) : v \in {x \in FlagValues : TryIntoU32(x) # None}}
    \cup {Token(k, {}, <<>>) : k \in OtherKinds \cup {"str"}}

FlagsInput(set, tok) == [set |-> set, tok |-> tok]

\* T::deserialize on one token, for T one of the strict flag sets.
FlagsDecode ==
    /\ pc = "idle"
    /\ \E set \in StrictFlagSets, tok \in FlagTokens :
            /\ input' = Some(FlagsInput(set, tok))
            /\ result' = Some(FlagsDeserialize(set, tok))
    /\ pc' = "decoded"
    /\ UNCHANGED <<frame, map, t, sequence, op, payload, event, log, output>>

\* T::serialize of the decoded value, for the sets that implement it.
FlagsEncode ==
    /\ Decoded
    /\ input[1].set \in SerializableFlagSets
    /\ output' = Some(Returns("serialize", FlagsSerialize(input[1].set, result[1].value)))
    /\ pc' = "done"
    /\ UNCHANGED <<frame, map, t, sequence, op, payload, event, log, input, result>>

FlagsNext ==
    \/ FlagsDecode
    \/ FlagsEncode

SpecFlags == Init /\ [][FlagsNext]_vars

----------------------------------------------------------------------------
(* Strict decode of flag sets                                              *)

\* The documented named bits of each strict flag set.
NamedBits(set) ==
    CASE set = "Intents" -> (0..16) \cup {20, 21}
      [] set = "MessageFlags" -> 0..4
      [] set = "SpeakingFlags" -> 0..2

IsNumeric(tok) == tok.kind \in {"u32", "u64"}

\* A numeric token decodes exactly when its bits are all named bits of the
\* set (so none is past the 32-bit width), and decodes to its value.
StrictDecode ==
    LET set == input[1].set
        tok == input[1].tok
    IN  IsNumeric(tok) =>
            /\ (\E i \in tok.bits : i \notin NamedBits(set) \/ i >= U32Width) =>
                    result[1].kind = "Err"
            /\ tok.bits \subseteq NamedBits(set) => result[1] = Ok(tok.bits)

\* C20: strict flag-set decode.  For Intents, MessageFlags and
\* SpeakingFlags a numeric token with a bit outside the set's named bits,
\* or past the 32-bit width, fails; a token with named bits only decodes
\* and the decoded value encodes back to the same number; GUILD_ALL is
\* 69631.
C20_StrictDecodeRoundTrips ==
    /\ GUILD_ALL = FromNat(69631)
    /\ HasDecoded =>
            /\ StrictDecode
            /\ (IsNumeric(input[1].tok) /\ result[1].kind = "Ok") =>
                    /\ input[1].set \in SerializableFlagSets
                    /\ FlagsSerialize(input[1].set, result[1].value).bits = input[1].tok.bits

\* C20 (amended): for Intents, MessageFlags and SpeakingFlags a numeric
\* token with a bit outside the set's named bits, or past the 32-bit
\* width, fails; a token with named bits only decodes to its value.  An
\* Intents or SpeakingFlags value encodes as the 32-bit number of its
\* bits, so back to the number it was decoded from (GUILD_ALL is 69631);
\* MessageFlags is decoded only, it has no encoding.
C20_StrictDecodeAndEncode ==
    /\ GUILD_ALL = FromNat(69631)
    /\ HasDecoded => StrictDecode
    /\ Called("serialize") =>
            /\ input[1].set \in {"Intents", "SpeakingFlags"}
            /\ Out = Token("u32", input[1].tok.bits, <<>>)

\* The number 69631 was decoded as Intents and encoded as 69631.
C20_Witness ==
    /\ Called("serialize")
    /\ input[1] = FlagsInput("Intents", Token("u32", FromNat(69631), <<>>))
    /\ result[1] = Ok(GUILD_ALL)
    /\ ToNat(Out.bits) = 69631

----------------------------------------------------------------------------
(* UserFlags (src/src/types.rs): 64-bit on the wire, 32-bit in memory      *)

\* UserFlags::deserialize on one token: deserialize_u64 with the same
\* BitFlagsVisitor as the strict sets.
UserFlagsDecode ==
    /\ pc = "idle"
    /\ \E tok \in FlagTokens :
            /\ input' = Some(FlagsInput("UserFlags", tok))
            /\ result' = Some(FlagsDeserialize("UserFlags", tok))
    /\ pc' = "decoded"
    /\ UNCHANGED <<frame, map, t, sequence, op, payload, event, log, output>>

\* UserFlags::serialize of the decoded value.
UserFlagsEncode ==
    /\ Decoded
    /\ output' = Some(Returns("serialize", FlagsSerialize("UserFlags", result[1].value)))
    /\ pc' = "done"
    /\ UNCHANGED <<frame, map, t, sequence, op, payload, event, log, input, result>>

UserFlagsNext ==
    \/ UserFlagsDecode
    \/ UserFlagsEncode

SpecUserFlags == Init /\ [][UserFlagsNext]_vars

\* The documented named bits of the user flags.
UserNamedBits == {0, 1, 2, 3, 6, 7, 8, 9, 10, 12, 14, 16, 17, 18, 19, 22}

\* C21: the user-flags decode truncates.  A numeric token decodes
\* whatever bits it has, to the value with every bit that is no named bit
\* (unknown, or past the 32-bit width) masked away, and that value encodes
\* as a 64-bit number: the input without exactly the masked bits.
C21_TruncatingDecode ==
    /\ (HasDecoded /\ IsNumeric(input[1].tok)) =>
            result[1] = Ok(input[1].tok.bits \cap UserNamedBits)
    /\ Called("serialize") =>
            Out = Token("u64", input[1].tok.bits \cap UserNamedBits, <<>>)

----------------------------------------------------------------------------
(* Color (src/src/types.rs): a u32 holding a 24-bit RGB value              *)

\* u32::MAX
U32Max == 0..(U32Width - 1)

\* a <= b on unsigned values: they are equal, or the highest bit in which
\* they differ is b's.
LessEq(a, b) ==
    \/ a = b
    \/ LET d == (a \ b) \cup (b \ a)
       IN  (CHOOSE i \in d : \A j \in d : j <= i) \in b

\* a + b on u32, which for the sums formed here never overflows.
AddU32(a, b) == CastTo(AddFrom(a, b, 0, 0), U32Width)

\* The error type () of the conversions.
Unit == [kind |-> "Unit", field |-> ""]

\* named_colors!( ... )
NamedColors ==
    [DEFAULT |-> \H000000, WHITE |-> \Hffffff, AQUA |-> \H1abc9c,
     GREEN |-> \H57f287, BLUE |-> \H3498db, YELLOW |-> \Hfee75c,
     PURPLE |-> \H9b59b6, LUMINOUS_VIVID_PINK |-> \He91e63,
     FUCHSIA |-> \Heb459e, GOLD |-> \Hf1c40f, ORANGE |-> \He67e22,
     RED |-> \Hed4245, GREY |-> \H95a5a6, NAVY |-> \H34495e,
     DARK_AQUA |-> \H11806a, DARK_GREEN |-> \H1f8b4c, DARK_BLUE |-> \H206694,
     DARK_PURPLE |-> \H71368a, DARK_VIVID_PINK |-> \Had1457,
     DARK_GOLD |-> \Hc27c0e, DARK_ORANGE |-> \Ha84300, DARK_RED |-> \H992d22,
     DARK_GREY |-> \H979c9f, DARKER_GREY |-> \H7f8c8d,
     LIGHT_GREY |-> \Hbcc0c0, DARK_NAVY |-> \H2c3e50, BLURPLE |-> \H5865f2,
     GREYPLE |-> \H99aab5, DARK_BUT_NOT_BLACK |-> \H2c2f33,
     NOT_QUITE_BLACK |-> \H23272a]

\* pub const $n: Color = Color($v)
NamedColor(n) == FromNat(NamedColors[n])

\* from_rgb with red shifted a byte too far.
FromRgbShifted(r, g, b) ==
    AddU32(AddU32(CastTo(Shl(FromNat(r), 24), U32Width),
                  CastTo(Shl(FromNat(g), 8), U32Width)), FromNat(b))

\* from_rgb: Color(((r as u32) << 16) + ((g as u32) << 8) + (b as u32))
FromRgb(r, g, b) ==
    AddU32(AddU32(CastTo(Shl(FromNat(r), 16), U32Width),
                  CastTo(Shl(FromNat(g), 8), U32Width)), FromNat(b))

\* TryFrom<u32>: if val <= 0xFFFFFF { Ok(Color(val)) } else { Err(()) }
TryFromU32(val) ==
    IF LessEq(val, FromNat(\HFFFFFF)) THEN Ok(val) ELSE Err(Unit)

\* TryFrom<u64> without its range check: the value is narrowed at once.
TryFromU64Narrowing(val) == TryFromU32(CastTo(val, U32Width))

\* TryFrom<u64>: if val <= u32::MAX as u64 { Self::try_from(val as u32) }
\* else { Err(()) }
TryFromU64(val) ==
    IF LessEq(val, U32Max) THEN TryFromU32(CastTo(val, U32Width)) ELSE Err(Unit)

HexDigit ==
    <<"0", "1", "2", "3", "4", "5", "6", "7", "8", "9",
      "a", "b", "c", "d", "e", "f">>
HexDigitUpper == <<"A", "B", "C", "D", "E", "F">>

\* char::to_digit(16)
IsHexDigit(c) ==
    (\E d \in 1..16 : HexDigit[d] = c) \/ (\E d \in 1..6 : HexDigitUpper[d] = c)
HexValue(c) ==
    IF \E d \in 1..16 : HexDigit[d] = c
    THEN (CHOOSE d \in 1..16 : HexDigit[d] = c) - 1
    ELSE (CHOOSE d \in 1..6 : HexDigitUpper[d] = c) + 9

\* The digit loop of u32::from_str_radix(_, 16): checked_mul(16),
\* checked_add(digit).
RECURSIVE ParseHexDigits(_, _)
ParseHexDigits(acc, s) ==
    IF s = <<>> THEN Ok(acc)
    ELSE IF ~IsHexDigit(Head(s)) THEN ParseIntError("InvalidDigit")
    ELSE IF \E i \in Shl(acc, 4) : i >= U32Width THEN ParseIntError("PosOverflow")
    ELSE LET a == AddFrom(Shl(acc, 4), FromNat(HexValue(Head(s))), 0, 0)
         IN  IF \E i \in a : i >= U32Width THEN ParseIntError("PosOverflow")
             ELSE ParseHexDigits(a, Tail(s))

\* u32::from_str_radix(val, 16): empty and a lone sign are errors, a
\* leading `+` is skipped, a leading `-` is no digit of an unsigned type.
FromStrRadix16(s) ==
    IF s = <<>> THEN ParseIntError("Empty")
    ELSE IF Len(s) = 1 /\ s[1] \in {"+", "-"} THEN ParseIntError("InvalidDigit")
    ELSE IF s[1] = "+" THEN ParseHexDigits({}, Tail(s))
    ELSE ParseHexDigits({}, s)

\* val.starts_with(p) and &val[n..]
StartsWith(s, p) == Len(s) >= Len(p) /\ SubSeq(s, 1, Len(p)) = p
Drop(s, n) == SubSeq(s, n + 1, Len(s))

\* The prefix stripping of from_str: `#`, else `0x`, else nothing.
StripPrefix(val) ==
    IF StartsWith(val, <<"#">>) THEN Drop(val, 1)
    ELSE IF StartsWith(val, <<"0", "x">>) THEN Drop(val, 2)
    ELSE val

\* Color::from_str (the strings here are ASCII: val.len() is their length)
ColorFromStr(val) ==
    LET v == StripPrefix(val)
    IN  IF Len(v) # 6 THEN Err(Unit)
        ELSE LET r == FromStrRadix16(v)
             IN  IF r.kind = "Err" THEN Err(Unit) ELSE TryFromU32(r.value)

\* ColorVisitor::visit_u64
ColorVisitU64(val) ==
    LET r == TryFromU64(val)
    IN  IF r.kind = "Err" THEN Err(Custom("value out of range")) ELSE r

\* deserializer.deserialize_u64(ColorVisitor): an unsigned integer token
\* reaches visit_u64, any other token the default of its visit method.
ColorDeserialize(tok) ==
    IF tok.kind \in {"u32", "u64"} THEN ColorVisitU64(tok.bits)
    ELSE Err(InvalidType("Color"))

\* serializer.serialize_u32(self.0)
ColorSerialize(v) == Token("u32", v, <<>>)

MaxColorBits == 3
MaxHex == 7

\* Positions of bits around the edges of the three colour bytes, of the
\* top byte and of the 32-bit width.
ColorPositions == {0, 7, 8, 15, 16, 23, 24, 31, 32, 63}

ColorValues ==
    {v \in SUBSET ColorPositions : Cardinality(v) <= MaxColorBits}
    \cup {FromNat(16777215), FromNat(16777216), FromNat(16777217),
          FromNat(\H1a2b3c), U32Max, U64Max}

ColorTokens ==
    {Token("u64", v, <<>>) : v \in ColorValues}
    \cup {Token("u32", v, <<>>) : v \in {x \in ColorValues : TryIntoU32(x) # None}}
    \cup {Token(k, {}, <<>>) : k \in OtherKinds \cup {"str"}}

ColorChars == {"1", "F", "+"}
ColorPrefixes == {<<>>, <<"#">>, <<"0", "x">>, <<"#", "#">>, <<"#", "0", "x">>}

\* The strings parsed: every prefix before every short body over
\* ColorChars, and bodies with a lower-case digit, a minus sign, a letter
\* that is no digit, a space and an upper-case prefix.
ColorStrings ==
    {p \o b : p \in ColorPrefixes,
              b \in UNION {[1..n -> ColorChars] : n \in 0..MaxHex}}
    \cup {<<"#", "1", "a", "2", "b", "3", "c">>,
          <<"0", "x", "1", "a", "2", "b", "3", "c">>,
          <<"1", "a", "2", "b", "3", "c">>,
          <<"0", "x", "1", "A", "2", "B", "3", "C">>,
          <<"0", "X", "1", "a", "2", "b", "3", "c">>,
          <<"-", "1", "2", "3", "4", "5">>,
          <<"#", "-", "1", "2", "3", "4", "5">>,
          <<"1", "2", "3", "4", "5", "g">>,
          <<" ", "1", "2", "3", "4", "5">>,
          <<"#", "0", "0", "0", "0", "0", "0">>}

ByteValues == {0, 1, 128, U8Max}

\* Color::deserialize on one token.
ColorDecode ==
    /\ pc = "idle"
    /\ \E tok \in ColorTokens :
         /\ input' = Some([via |-> "deserialize", tok |-> tok])
         /\ result' = Some(ColorDeserialize(tok))
    /\ pc' = "decoded"
    /\ UNCHANGED <<frame, map, t, sequence, op, payload, event, log, output>>

\* str::parse::<Color>
ColorParse ==
    /\ pc = "idle"
    /\ \E str \in ColorStrings :
         /\ input' = Some([via |-> "from_str", str |-> str])
         /\ result' = Some(ColorFromStr(str))
    /\ pc' = "decoded"
    /\ UNCHANGED <<frame, map, t, sequence, op, payload, event, log, output>>

\* Color::from_rgb
ColorFromRgb ==
    /\ pc = "idle"
    /\ \E r \in ByteValues, g \in ByteValues, b \in ByteValues :
         /\ input' = Some([via |-> "from_rgb", rgb |-> <<r, g, b>>])
         /\ result' = Some(Ok(FromRgb(r, g, b)))
    /\ pc' = "decoded"
    /\ UNCHANGED <<frame, map, t, sequence, op, payload, event, log, output>>

\* Color::try_from(u32)
ColorTryFromU32 ==
    /\ pc = "idle"
    /\ \E v \in {x \in ColorValues : TryIntoU32(x) # None} :
         /\ input' = Some([via |-> "try_from_u32", val |-> v])
         /\ result' = Some(TryFromU32(v))
    /\ pc' = "decoded"
    /\ UNCHANGED <<frame, map, t, sequence, op, payload, event, log, output>>

\* Color::try_from(u64)
ColorTryFromU64 ==
    /\ pc = "idle"
    /\ \E v \in ColorValues :
         /\ input' = Some([via |-> "try_from_u64", val |-> v])
         /\ result' = Some(TryFromU64(v))
    /\ pc' = "decoded"
    /\ UNCHANGED <<frame, map, t, sequence, op, payload, event, log, output>>

\* Color::$n, a named constant
ColorNamed ==
    /\ pc = "idle"
    /\ \E n \in DOMAIN NamedColors :
         /\ input' = Some([via |-> "named", name |-> n])
         /\ result' = Some(Ok(NamedColor(n)))
    /\ pc' = "decoded"
    /\ UNCHANGED <<frame, map, t, sequence, op, payload, event, log, output>>

\* Color::default(): Color::DEFAULT
ColorDefault ==
    /\ pc = "idle"
    /\ input' = Some([via |-> "default"])
    /\ result' = Some(Ok(NamedColor("DEFAULT")))
    /\ pc' = "decoded"
    /\ UNCHANGED <<frame, map, t, sequence, op, payload, event, log, output>>

\* Color::serialize of the colour obtained.
ColorEncode ==
    /\ Decoded
    /\ output' = Some(Returns("serialize", ColorSerialize(result[1].value)))
    /\ pc' = "done"
    /\ UNCHANGED <<frame, map, t, sequence, op, payload, event, log, input, result>>

ColorNext ==
    \/ ColorDecode
    \/ ColorParse
    \/ ColorFromRgb
    \/ ColorTryFromU32
    \/ ColorTryFromU64
    \/ ColorNamed
    \/ ColorDefault
    \/ ColorEncode

SpecColor == Init /\ [][ColorNext]_vars

\* The entry point the colour of this state came through.
Via(v) == HasDecoded /\ input[1].via = v

\* The bits of the three colour bytes: a value is at most 0xFFFFFF exactly
\* when it has no other bit.
ColorBits == 0..23

\* C22: Color decode accepts a numeric token n exactly when n <= 0xFFFFFF
\* and yields n (16777215 is accepted; 16777216 and every larger value up
\* to 2^64-1 fails, none wraps around into range), and encode emits the
\* stored value as a plain unsigned integer.
C22_ColorDecodeBounds ==
    /\ (Via("deserialize") /\ IsNumeric(input[1].tok)) =>
          IF input[1].tok.bits \subseteq ColorBits
          THEN result[1] = Ok(input[1].tok.bits)
          ELSE result[1].kind = "Err"
    /\ (Via("deserialize") /\ input[1].tok.bits = FromNat(16777215)
          /\ IsNumeric(input[1].tok)) => result[1].kind = "Ok"
    /\ (Via("deserialize") /\ input[1].tok.bits = FromNat(16777216)) =>
          result[1].kind = "Err"
    /\ (Via("deserialize") /\ Called("serialize")) =>
          Out = Token("u32", input[1].tok.bits, <<>>)

\* A value past the 32-bit width, whose low 32 bits are in range, was
\* decoded and refused.
C22_Witness ==
    /\ Via("deserialize")
    /\ input[1].tok.bits = {0, 32}
    /\ result[1].kind = "Err"

\* What is left of a string once at most one leading `#` or `0x` is gone.
Remainder(str) ==
    IF str # <<>> /\ str[1] = "#" THEN Tail(str)
    ELSE IF Len(str) >= 2 /\ str[1] = "0" /\ str[2] = "x" THEN Tail(Tail(str))
    ELSE str

SixHexDigits(v) == Len(v) = 6 /\ \A i \in 1..6 : IsHexDigit(v[i])

\* The number a string of hexadecimal digits denotes.
RECURSIVE HexNumber(_)
HexNumber(v) ==
    IF v = <<>> THEN 0
    ELSE HexNumber(SubSeq(v, 1, Len(v) - 1)) * 16 + HexValue(v[Len(v)])

\* C23: Color::from_str strips at most one leading `#` or `0x` and accepts
\* the remainder only if it is exactly 6 hexadecimal digits, returning the
\* colour those digits denote; every other remainder (wrong length, or any
\* character that is no hexadecimal digit, a sign included) is rejected.
C23_SixHexDigitsOnly ==
    Via("from_str") =>
        LET v == Remainder(input[1].str)
        IN  IF SixHexDigits(v)
            THEN result[1] = Ok(FromNat(HexNumber(v)))
            ELSE result[1].kind = "Err"

\* C24: every Color obtained from a named constant, from_rgb, TryFrom<u32>,
\* TryFrom<u64>, FromStr, Default or decode has its top byte zero: its
\* stored integer is at most 0xFFFFFF, and so is the integer encoded.
C24_TopByteZero ==
    /\ (HasDecoded /\ result[1].kind = "Ok") =>
          /\ result[1].value \subseteq ColorBits
          /\ LessEq(result[1].value, FromNat(\HFFFFFF))
    /\ Called("serialize") => Out.bits \subseteq ColorBits

\* The largest colour was built from its three bytes.
C24_Witness ==
    /\ Via("from_rgb")
    /\ input[1].rgb = <<U8Max, U8Max, U8Max>>
    /\ result[1] = Ok(ColorBits)

----------------------------------------------------------------------------
(* The accessors of the two Event enums (src/src/event.rs, voice.rs)       *)

\* pub struct EventError
EventError == [kind |-> "EventError", field |-> ""]

\* The variants whose payload has a guild id that is always there, the
\* variants whose payload has an optional one, and the other variants.
GuildVariants ==
    {"GuildCreate", "GuildUpdate", "GuildDelete", "GuildMemberAdd",
     "GuildMemberUpdate", "GuildMemberRemove", "GuildMembersChunk",
     "GuildRoleCreate", "GuildRoleUpdate", "GuildRoleDelete",
     "VoiceServerUpdate"}
OptionalGuildVariants ==
    {"MessageCreate", "MessageUpdate", "MessageDelete", "ChannelCreate",
     "ChannelUpdate", "ChannelDelete", "ApplicationCommandCreate",
     "ApplicationCommandUpdate", "ApplicationCommandDelete",
     "InteractionCreate", "VoiceStateUpdate"}
OtherVariants ==
    {"Hello", "Ready", "Resumed", "InvalidSession", "HeartbeatAck", "Unknown"}

\* An event of variant v whose payload record holds the guild id g where
\* the record has a GuildId, and o where it has an Option<GuildId>; of a
\* payload only the fields on the path to the guild id are kept.
EventWith(v, g, o) ==
    [variant |-> v,
     data |->
       CASE v \in {"GuildCreate", "GuildUpdate"} -> [guild |-> [id |-> g]]
         [] v = "GuildDelete" -> [id |-> g]
         [] v \in {"GuildMemberAdd", "GuildMemberUpdate", "GuildMemberRemove",
                   "GuildMembersChunk", "GuildRoleCreate", "GuildRoleUpdate",
                   "GuildRoleDelete", "VoiceServerUpdate"} -> [guild_id |-> g]
         [] v = "MessageCreate" -> [message |-> [guild_id |-> o]]
         [] v \in {"MessageUpdate", "MessageDelete", "ApplicationCommandCreate",
                   "ApplicationCommandUpdate", "ApplicationCommandDelete"} ->
                [guild_id |-> o]
         [] v \in {"ChannelCreate", "ChannelUpdate", "ChannelDelete"} ->
                [channel |-> [guild_id |-> o]]
         [] v = "InteractionCreate" -> [interaction |-> [guild_id |-> o]]
         [] v = "VoiceStateUpdate" -> [voice_state |-> [guild_id |-> o]]
         [] v = "Unknown" -> "SOME_NEW_EVENT"
         [] v \in {"Resumed", "HeartbeatAck"} -> ""
         [] OTHER -> v]

\* guild_id with the arm of MessageCreate commented out, as the arm of
\* MessageDeleteBulk is.
GuildIdNoMessageCreate(e) ==
    LET v == e.variant
    IN  CASE v \in {"GuildCreate", "GuildUpdate"} -> Some(e.data.guild.id)
          [] v = "GuildDelete" -> Some(e.data.id)
          [] v \in {"MessageUpdate", "MessageDelete"} -> e.data.guild_id
          [] v \in {"GuildMemberAdd", "GuildMemberUpdate", "GuildMemberRemove",
                    "GuildMembersChunk", "GuildRoleCreate", "GuildRoleUpdate",
                    "GuildRoleDelete"} -> Some(e.data.guild_id)
          [] v \in {"ChannelCreate", "ChannelUpdate", "ChannelDelete"} ->
                 e.data.channel.guild_id
          [] v \in {"ApplicationCommandCreate", "ApplicationCommandUpdate",
                    "ApplicationCommandDelete"} -> e.data.guild_id
          [] v = "InteractionCreate" -> e.data.interaction.guild_id
          [] v = "VoiceStateUpdate" -> e.data.voice_state.guild_id
          [] v = "VoiceServerUpdate" -> Some(e.data.guild_id)
          [] OTHER -> None

\* Event::guild_id
GuildId(e) ==
    LET v == e.variant
    IN  CASE v \in {"GuildCreate", "GuildUpdate"} -> Some(e.data.guild.id)
          [] v = "GuildDelete" -> Some(e.data.id)
          [] v = "MessageCreate" -> e.data.message.guild_id
          [] v \in {"MessageUpdate", "MessageDelete"} -> e.data.guild_id
          [] v \in {"GuildMemberAdd", "GuildMemberUpdate", "GuildMemberRemove",
                    "GuildMembersChunk", "GuildRoleCreate", "GuildRoleUpdate",
                    "GuildRoleDelete"} -> Some(e.data.guild_id)
          [] v \in {"ChannelCreate", "ChannelUpdate", "ChannelDelete"} ->
                 e.data.channel.guild_id
          [] v \in {"ApplicationCommandCreate", "ApplicationCommandUpdate",
                    "ApplicationCommandDelete"} -> e.data.guild_id
          [] v = "InteractionCreate" -> e.data.interaction.guild_id
          [] v = "VoiceStateUpdate" -> e.data.voice_state.guild_id
          [] v = "VoiceServerUpdate" -> Some(e.data.guild_id)
          [] OTHER -> None

\* Event::expect_hello, Event::expect_ready
ExpectHello(e) == IF e.variant = "Hello" THEN Ok(e.data) ELSE Err(EventError)
ExpectReady(e) == IF e.variant = "Ready" THEN Ok(e.data) ELSE Err(EventError)

\* voice::Event::expect_hello
VoiceExpectHello(e) == IF e.variant = "Hello" THEN Ok(e.data) ELSE Err(EventError)

\* expect_ready with the pattern of is_ready_kind.
VoiceExpectReadyKind(e) ==
    IF e.variant \in {"Ready", "Resumed"} THEN Ok(e.data) ELSE Err(EventError)

\* voice::Event::expect_ready
VoiceExpectReady(e) == IF e.variant = "Ready" THEN Ok(e.data) ELSE Err(EventError)

\* voice::Event::expect_resumed: Ok(()), the empty tuple
VoiceExpectResumed(e) == IF e.variant = "Resumed" THEN Ok(<<>>) ELSE Err(EventError)

\* The guild ids the payloads hold.
GuildIds == {FromNat(1), FixtureId, U64Max}

\* An event is decoded from a gateway frame.
EventDecoded ==
    /\ pc = "idle"
    /\ \E f \in WireFrames :
         /\ DecodeFrame(f).kind = "Ok"
         /\ frame' = f
         /\ event' = Some(DecodeFrame(f).value.event)
    /\ pc' = "event"
    /\ UNCHANGED <<map, t, sequence, op, payload, result, log, input, output>>

\* An event is decoded from a voice frame.
VoiceEventDecoded ==
    /\ pc = "idle"
    /\ \E f \in VoiceWireFrames :
         /\ VoiceDecodeFrame(f).kind = "Ok"
         /\ frame' = f
         /\ event' = Some(VoiceDecodeFrame(f).value)
    /\ pc' = "voice_event"
    /\ UNCHANGED <<map, t, sequence, op, payload, result, log, input, output>>

\* An event is at hand whose payload holds guild ids.
EventBuilt ==
    /\ pc = "idle"
    /\ \E v \in GuildVariants \cup OptionalGuildVariants \cup OtherVariants,
          g \in GuildIds, o \in {None} \cup {Some(x) : x \in GuildIds} :
         /\ input' = Some([variant |-> v, guild |-> g, optional |-> o])
         /\ event' = Some(EventWith(v, g, o))
    /\ pc' = "built"
    /\ UNCHANGED <<frame, map, t, sequence, op, payload, result, log, output>>

\* event.guild_id()
CallGuildId ==
    /\ pc = "built"
    /\ output' = Some(Returns("guild_id", GuildId(event[1])))
    /\ pc' = "done"
    /\ UNCHANGED <<frame, map, t, sequence, op, payload, result, event, log, input>>

\* event.expect_hello()
CallExpectHello ==
    /\ pc = "event"
    /\ output' = Some(Returns("expect_hello", ExpectHello(event[1])))
    /\ pc' = "done"
    /\ UNCHANGED <<frame, map, t, sequence, op, payload, result, event, log, input>>

\* event.expect_ready()
CallExpectReady ==
    /\ pc = "event"
    /\ output' = Some(Returns("expect_ready", ExpectReady(event[1])))
    /\ pc' = "done"
    /\ UNCHANGED <<frame, map, t, sequence, op, payload, result, event, log, input>>

\* voice: event.expect_hello()
CallVoiceExpectHello ==
    /\ pc = "voice_event"
    /\ output' = Some(Returns("voice::expect_hello", VoiceExpectHello(event[1])))
    /\ pc' = "done"
    /\ UNCHANGED <<frame, map, t, sequence, op, payload, result, event, log, input>>

\* voice: event.expect_ready()
CallVoiceExpectReady ==
    /\ pc = "voice_event"
    /\ output' = Some(Returns("voice::expect_ready", VoiceExpectReady(event[1])))
    /\ pc' = "done"
    /\ UNCHANGED <<frame, map, t, sequence, op, payload, result, event, log, input>>

\* voice: event.expect_resumed()
CallVoiceExpectResumed ==
    /\ pc = "voice_event"
    /\ output' = Some(Returns("voice::expect_resumed", VoiceExpectResumed(event[1])))
    /\ pc' = "done"
    /\ UNCHANGED <<frame, map, t, sequence, op, payload, result, event, log, input>>

AccessorNext ==
    \/ EventDecoded
    \/ VoiceEventDecoded
    \/ EventBuilt
    \/ CallGuildId
    \/ CallExpectHello
    \/ CallExpectReady
    \/ CallVoiceExpectHello
    \/ CallVoiceExpectReady
    \/ CallVoiceExpectResumed

SpecAccessor == Init /\ [][AccessorNext]_vars

\* C25: Event::guild_id returns None for Hello, Ready, Resumed,
\* InvalidSession, HeartbeatAck and Unknown; Some of the embedded guild id
\* for the guild, guild-member, guild-role and voice-server events; and for
\* the message, channel, application-command, interaction and voice-state
\* events exactly the payload's optional guild id.
C25_GuildIdTable ==
    Called("guild_id") =>
        /\ input[1].variant \in OtherVariants => Out = None
        /\ input[1].variant \in GuildVariants => Out = Some(input[1].guild)
        /\ input[1].variant \in OptionalGuildVariants => Out = input[1].optional

\* The guild id nested in a MessageCreate's message was returned.
C25_Witness ==
    /\ Called("guild_id")
    /\ input[1].variant = "MessageCreate"
    /\ Out = Some(FixtureId)

\* C26: expect_hello and expect_ready of the gateway event, and
\* expect_hello, expect_ready and expect_resumed of the voice event, return
\* Ok with the variant's payload exactly when the event is that variant,
\* and Err(EventError) otherwise, whatever frame the event was decoded
\* from.
C26_ExpectVariantOrError ==
    /\ Called("expect_hello") =>
          /\ Out = IF event[1].variant = "Hello"
                   THEN Ok(event[1].data) ELSE Err(EventError)
          /\ Out.kind = "Ok" <=> ValueOf(frame, "op") = 10
    /\ Called("expect_ready") =>
          /\ Out = IF event[1].variant = "Ready"
                   THEN Ok(event[1].data) ELSE Err(EventError)
          /\ Out.kind = "Ok" <=>
                /\ ValueOf(frame, "op") = 0
                /\ Has(frame, "t")
                /\ ValueOf(frame, "t") = Some("READY")
    /\ Called("voice::expect_hello") =>
          /\ Out = IF event[1].variant = "Hello"
                   THEN Ok(event[1].data) ELSE Err(EventError)
          /\ Out.kind = "Ok" <=> ValueOf(frame, "op") = 8
    /\ Called("voice::expect_ready") =>
          /\ Out = IF event[1].variant = "Ready"
                   THEN Ok(event[1].data) ELSE Err(EventError)
          /\ Out.kind = "Ok" <=> ValueOf(frame, "op") = 2
    /\ Called("voice::expect_resumed") =>
          /\ Out = IF event[1].variant = "Resumed"
                   THEN Ok(<<>>) ELSE Err(EventError)
          /\ Out.kind = "Ok" <=> ValueOf(frame, "op") = 9

\* expect_ready was called on a voice event that is Resumed, and returned
\* the error.
C26_Witness ==
    /\ Called("voice::expect_ready")
    /\ event[1].variant = "Resumed"
    /\ Out = Err(EventError)

----------------------------------------------------------------------------
(* The typed identifiers (src/src/types.rs, id_type!)                      *)

\* id_types!( ... )
IdTypes ==
    {"ApplicationId", "ChannelId", "GuildId", "InteractionId", "MessageId",
     "RoleId", "UserId"}

\* pub struct $t(Snowflake): a value of the type named ty
TypedId(ty, v) == [type |-> ty, snowflake |-> v]

\* derive(Deserialize) on the newtype: the token is handed to
\* Snowflake::deserialize and the value wrapped.
IdDeserialize(ty, tok) ==
    LET r == SnowflakeDeserialize(tok)
    IN  IF r.kind = "Ok" THEN Ok(TypedId(ty, r.value)) ELSE r

\* Serialize writing the number the identifier wraps.
IdSerializeNumber(id) == U64Token(id.snowflake)

\* derive(Serialize) on the newtype: Snowflake::serialize of the field.
IdSerialize(id) == SnowflakeSerialize(id.snowflake)

\* impl Deref for $t: &self.0
IdDeref(id) == id.snowflake

\* impl From<Snowflake> for $t
IdFrom(ty, v) == TypedId(ty, v)

\* impl From<$t> for u64: id.0 .0
IdIntoU64(id) == id.snowflake

\* The tokens decoded as ids: the strings and token kinds decoded as
\* Snowflake, and a few numbers.
IdTokens ==
    {StrToken(s) : s \in SnowflakeStrings}
    \cup {U64Token(v) : v \in {{}, FromNat(1), FromNat(4194304), FixtureId, U64Max}}
    \cup {Token(k, {}, <<>>) : k \in OtherKinds}

\* $t::deserialize on one token.
IdDecode ==
    /\ pc = "idle"
    /\ \E ty \in IdTypes, tok \in IdTokens :
         /\ input' = Some([type |-> ty, tok |-> tok])
         /\ result' = Some(IdDeserialize(ty, tok))
    /\ pc' = "decoded"
    /\ UNCHANGED <<frame, map, t, sequence, op, payload, event, log, output>>

\* An explicit conversion of the decoded id to another id type:
\* $u::from(*id), through Deref and From<Snowflake>.
IdConvert ==
    /\ Decoded
    /\ \E ty \in IdTypes \ {result[1].value.type} :
         /\ result' = Some(Ok(IdFrom(ty, IdDeref(result[1].value))))
         /\ log' = <<ty>>
    /\ pc' = "converted"
    /\ UNCHANGED <<frame, map, t, sequence, op, payload, event, input, output>>

\* $t::serialize of the id held.
IdEncode ==
    /\ pc \in {"decoded", "converted"}
    /\ result[1].kind = "Ok"
    /\ output' = Some(Returns("serialize", IdSerialize(result[1].value)))
    /\ pc' = "done"
    /\ UNCHANGED <<frame, map, t, sequence, op, payload, event, log, input, result>>

\* u64::from(id)
IdValue ==
    /\ pc \in {"decoded", "converted"}
    /\ result[1].kind = "Ok"
    /\ output' = Some(Returns("into_u64", U64Token(IdIntoU64(result[1].value))))
    /\ pc' = "done"
    /\ UNCHANGED <<frame, map, t, sequence, op, payload, event, log, input, result>>

TypedIdNext ==
    \/ IdDecode
    \/ IdConvert
    \/ IdEncode
    \/ IdValue

SpecTypedId == Init /\ [][TypedIdNext]_vars

\* The id type the value held has by the calls made so far: the type it
\* was decoded as, or the target of the explicit conversion.
TypeExpected == IF log = <<>> THEN input[1].type ELSE log[1]

\* C27: each typed identifier has the value and the wire encoding of the
\* raw Snowflake.  Decoded as any of the seven id types, a token gives what
\* Snowflake's decoder gives, wrapped: the numeric token v and the decimal
\* string of v give the id holding v.  The id encodes as a string, the
\* decimal string of its value.  The id held is of the type it was decoded
\* as until an explicit conversion names another type, and the conversion
\* keeps the value.
C27_TypedIdAsSnowflake ==
    (pc \in {"decoded", "converted", "done"}) =>
        LET tok == input[1].tok
        IN  /\ pc = "decoded" =>
                  SnowflakeDeserialize(tok) =
                      IF result[1].kind = "Ok"
                      THEN Ok(result[1].value.snowflake) ELSE result[1]
            /\ tok.kind = "u64" =>
                  /\ result[1].kind = "Ok"
                  /\ result[1].value.snowflake = tok.bits
            /\ (tok.kind = "str" /\ IsDecimalString(tok.chars)) =>
                  /\ result[1].kind = "Ok"
                  /\ Len(tok.chars) <= 9 =>
                        /\ result[1].value.snowflake \subseteq 0..30
                        /\ ToString(ToNat(result[1].value.snowflake)) = Concat(tok.chars)
                  /\ tok.chars = MaxDigits => result[1].value.snowflake = U64Max
            /\ result[1].kind = "Ok" => result[1].value.type = TypeExpected
            /\ Called("serialize") =>
                  /\ Out.kind = "str"
                  /\ IsDecimalString(Out.chars)
                  /\ ParseU64(Out.chars) = Ok(result[1].value.snowflake)
                  /\ (tok.kind = "str" /\ IsDecimalString(tok.chars)) =>
                        Out.chars = tok.chars
            /\ Called("into_u64") => Out = U64Token(result[1].value.snowflake)

\* A ChannelId decoded from the test's identifier was converted to a
\* GuildId and encoded as the same decimal string.
C27_Witness ==
    /\ Called("serialize")
    /\ input[1] = [type |-> "ChannelId", tok |-> U64Token(FixtureId)]
    /\ result[1] = Ok(TypedId("GuildId", FixtureId))
    /\ Concat(Out.chars) = "175928847299117063"

----------------------------------------------------------------------------
(* Interaction and InteractionType (src/src/types.rs)                      *)

\* derive(Deserialize_repr) on InteractionType, repr(u8) with
\* #[serde(other)] Unknown
InteractionTypeOf(n) ==
    CASE n = 1 -> "Ping"
      [] n = 2 -> "Command"
      [] n = 3 -> "Component"
      [] OTHER -> "Unknown"

\* Interaction::is_command_interaction
IsCommandInteraction(i) == i.interaction_type = "Component"

\* Interaction::is_component_interaction
IsComponentInteraction(i) == i.interaction_type = "Component"

\* InteractionType::is_command_interaction
TypeIsCommandInteraction(ty) == ty = "Command"

\* InteractionType::is_component_interaction
TypeIsComponentInteraction(ty) == ty = "Component"

\* The calls logged so far.
CallsMade == {log[i].call : i \in DOMAIN log}

\* An interaction is decoded whose `type` is the number n.
InteractionReceived ==
    /\ pc = "idle"
    /\ \E n \in 0..U8Max :
         /\ input' = Some(n)
         /\ event' = Some([interaction_type |-> InteractionTypeOf(n)])
    /\ pc' = "interaction"
    /\ UNCHANGED <<frame, map, t, sequence, op, payload, result, log, output>>

\* interaction.is_command_interaction()
CallIsCommandInteraction ==
    /\ pc = "interaction"
    /\ "Interaction::is_command_interaction" \notin CallsMade
    /\ log' = Append(log, Returns("Interaction::is_command_interaction",
                                  IsCommandInteraction(event[1])))
    /\ UNCHANGED <<frame, map, t, sequence, op, payload, result, pc, event, input, output>>

\* interaction.is_component_interaction()
CallIsComponentInteraction ==
    /\ pc = "interaction"
    /\ "Interaction::is_component_interaction" \notin CallsMade
    /\ log' = Append(log, Returns("Interaction::is_component_interaction",
                                  IsComponentInteraction(event[1])))
    /\ UNCHANGED <<frame, map, t, sequence, op, payload, result, pc, event, input, output>>

\* interaction.interaction_type.is_command_interaction()
CallTypeIsCommandInteraction ==
    /\ pc = "interaction"
    /\ "InteractionType::is_command_interaction" \notin CallsMade
    /\ log' = Append(log, Returns("InteractionType::is_command_interaction",
                                  TypeIsCommandInteraction(event[1].interaction_type)))
    /\ UNCHANGED <<frame, map, t, sequence, op, payload, result, pc, event, input, output>>

\* interaction.interaction_type.is_component_interaction()
CallTypeIsComponentInteraction ==
    /\ pc = "interaction"
    /\ "InteractionType::is_component_interaction" \notin CallsMade
    /\ log' = Append(log, Returns("InteractionType::is_component_interaction",
                                  TypeIsComponentInteraction(event[1].interaction_type)))
    /\ UNCHANGED <<frame, map, t, sequence, op, payload, result, pc, event, input, output>>

InteractionNext ==
    \/ InteractionReceived
    \/ CallIsCommandInteraction
    \/ CallIsComponentInteraction
    \/ CallTypeIsCommandInteraction
    \/ CallTypeIsComponentInteraction

SpecInteraction == Init /\ [][InteractionNext]_vars

\* The call was made and returned b.
Answered(call, b) == \E i \in DOMAIN log : log[i] = Returns(call, b)

\* C28: Interaction::is_command_interaction returns true exactly when the
\* interaction's type is Command, as InteractionType::is_command_interaction
\* does, and Interaction::is_component_interaction returns true exactly
\* when it is Component; for no interaction are both true.
C28_PredicatesFollowType ==
    pc = "interaction" =>
        /\ \A b \in BOOLEAN :
              /\ Answered("Interaction::is_command_interaction", b) =>
                    /\ b = (input[1] = 2)
                    /\ ~Answered("InteractionType::is_command_interaction", ~b)
              /\ Answered("Interaction::is_component_interaction", b) =>
                    b = (input[1] = 3)
        /\ ~(/\ Answered("Interaction::is_command_interaction", TRUE)
             /\ Answered("Interaction::is_component_interaction", TRUE))

----------------------------------------------------------------------------
(* The two visitors call by call: the use each makes of its MapAccess      *)

MaxKeys == 3

\* The wildcard arm left empty: the value of an unknown key is not read.
ArmCallsWildcardEmpty(L, e) ==
    CASE e.key = "t" -> IF L.t # None THEN <<>> ELSE <<"next_value">>
      [] e.key = "s" -> IF L.sequence # None THEN <<>> ELSE <<"next_value">>
      [] e.key = "op" -> IF L.op # None THEN <<>> ELSE <<"next_value">>
      [] e.key = "d" ->
            IF L.payload # None THEN <<>>
            ELSE IF L.op = None THEN <<>>
            ELSE IF L.op[1] = 0 /\ L.t = None THEN <<>>
            ELSE <<"next_value">>
      [] OTHER -> <<>>

\* The calls the arm matching entry e makes on the map: every arm calls
\* next_value once, after the returns of its duplicate check and, in the
\* "d" arm, of the missing op and of the (0, None) arm of the match.
ArmCalls(L, e) ==
    CASE e.key = "t" -> IF L.t # None THEN <<>> ELSE <<"next_value">>
      [] e.key = "s" -> IF L.sequence # None THEN <<>> ELSE <<"next_value">>
      [] e.key = "op" -> IF L.op # None THEN <<>> ELSE <<"next_value">>
      [] e.key = "d" ->
            IF L.payload # None THEN <<>>
            ELSE IF L.op = None THEN <<>>
            ELSE IF L.op[1] = 0 /\ L.t = None THEN <<>>
            ELSE <<"next_value">>
      [] OTHER -> <<"next_value">>

\* The same for the arms of the voice visitor.
VoiceArmCalls(L, e) ==
    CASE e.key = "op" -> IF L.op # None THEN <<>> ELSE <<"next_value">>
      [] e.key = "d" ->
            IF L.event # None THEN <<>>
            ELSE IF L.op = None THEN <<>>
            ELSE <<"next_value">>
      [] OTHER -> <<"next_value">>

\* Every frame of at most MaxKeys entries.
CallFrames == UNION {[1..n -> Entries] : n \in 0..MaxKeys}
VoiceCallFrames == UNION {[1..n -> VoiceEntries] : n \in 0..MaxKeys}

\* Payload::deserialize is called on a frame.
CallsDeserialize ==
    /\ pc = "idle"
    /\ \E f \in CallFrames : frame' = f /\ map' = f
    /\ SetLocals(InitLocals)
    /\ result' = None
    /\ pc' = "loop"
    /\ UNCHANGED others

\* while let Some(key) = map.next_key()?: the call, which yields the next
\* key or ends the loop, visit_map then returning.
NextKey ==
    /\ pc = "loop"
    /\ log' = Append(log, "next_key")
    /\ IF map = <<>>
       THEN result' = Some(Finish(Locals)) /\ pc' = "done"
       ELSE UNCHANGED result /\ pc' = "key"
    /\ UNCHANGED <<frame, map, t, sequence, op, payload, event, input, output>>

\* match key { ... }: the arm of the key runs, returning an error or
\* leaving the entry consumed.
Arm ==
    /\ pc = "key"
    /\ log' = log \o ArmCalls(Locals, Head(map))
    /\ LET n == VisitEntry(Locals, Head(map))
       IN  IF n.err # None
           THEN /\ result' = Some(Err(n.err[1]))
                /\ pc' = "done"
                /\ UNCHANGED <<map, t, sequence, op, payload>>
           ELSE /\ SetLocals(n)
                /\ map' = Tail(map)
                /\ pc' = "loop"
                /\ UNCHANGED result
    /\ UNCHANGED <<frame, event, input, output>>

\* voice::Event::deserialize is called on a frame.
VoiceCallsDeserialize ==
    /\ pc = "idle"
    /\ \E f \in VoiceCallFrames : frame' = f /\ map' = f
    /\ VoiceSetLocals(VoiceInitLocals)
    /\ result' = None
    /\ pc' = "voice_loop"
    /\ UNCHANGED <<t, sequence, payload, log, input, output>>

VoiceNextKey ==
    /\ pc = "voice_loop"
    /\ log' = Append(log, "next_key")
    /\ IF map = <<>>
       THEN result' = Some(VoiceFinish(VoiceLocals)) /\ pc' = "done"
       ELSE UNCHANGED result /\ pc' = "voice_key"
    /\ UNCHANGED <<frame, map, t, sequence, op, payload, event, input, output>>

VoiceArm ==
    /\ pc = "voice_key"
    /\ log' = log \o VoiceArmCalls(VoiceLocals, Head(map))
    /\ LET n == VoiceVisitEntry(VoiceLocals, Head(map))
       IN  IF n.err # None
           THEN /\ result' = Some(Err(n.err[1]))
                /\ pc' = "done"
                /\ UNCHANGED <<map, op, event>>
           ELSE /\ VoiceSetLocals(n)
                /\ map' = Tail(map)
                /\ pc' = "voice_loop"
                /\ UNCHANGED result
    /\ UNCHANGED <<frame, t, sequence, payload, input, output>>

CallsNext ==
    \/ CallsDeserialize
    \/ NextKey
    \/ Arm
    \/ VoiceCallsDeserialize
    \/ VoiceNextKey
    \/ VoiceArm

SpecCalls == Init /\ [][CallsNext]_vars

\* How many times the call c was made.
CountOf(c) == Cardinality({i \in DOMAIN log : log[i] = c})
LastCall == log[Len(log)]

\* C29: in both visitors each key obtained from next_key is followed by
\* exactly one next_value before the next next_key; a key's value is left
\* unread only where the visitor returns an error at once; and the loop
\* ends only when next_key reports no more keys or an error is returned.
C29_OneValuePerKey ==
    (pc \in {"loop", "key", "voice_loop", "voice_key", "done"}) =>
        /\ \A i \in DOMAIN log :
              /\ log[i] = "next_value" => (i > 1 /\ log[i - 1] = "next_key")
              /\ (log[i] = "next_key" /\ i < Len(log)) => log[i + 1] = "next_value"
        /\ pc \in {"loop", "voice_loop"} =>
              /\ log = <<>> \/ LastCall = "next_value"
              /\ CountOf("next_value") = Len(frame) - Len(map)
              /\ CountOf("next_key") = CountOf("next_value")
        /\ pc \in {"key", "voice_key"} =>
              /\ LastCall = "next_key"
              /\ map # <<>>
              /\ CountOf("next_value") = Len(frame) - Len(map)
        /\ pc = "done" =>
              /\ result[1].kind = "Err" \/ (LastCall = "next_key" /\ map = <<>>)
              /\ (LastCall = "next_key" /\ map # <<>>) =>
                    /\ result[1].kind = "Err"
                    /\ result[1].error.kind \in {"DuplicateField", "MissingField"}
              /\ result[1].kind = "Ok" =>
                    /\ CountOf("next_value") = Len(frame)
                    /\ CountOf("next_key") = Len(frame) + 1

\* The gateway visitor met a second "op" after reading an unknown key's
\* value, and returned the error without reading the value.
C29_Witness ==
    /\ pc = "done"
    /\ Len(frame) = 3
    /\ frame[2].key = "v"
    /\ payload = None
    /\ result[1] = Err(DuplicateField("op"))
    /\ log = <<"next_key", "next_value", "next_key", "next_value", "next_key">>

----------------------------------------------------------------------------
(* The decomposition of a Snowflake put together again                     *)

\* a - b on u64 for a >= b: a plus the two's complement of b.
Minus(a, b) == CastTo(AddFrom(a, U64Max \ b, 0, 1), U64Width)

\* C30: the decomposition of a Snowflake is lossless.  For every decoded v,
\* with ms the milliseconds date_time() stands for:
\* ((ms - 1420070400000) << 22) | (worker << 17) | (process << 12) |
\* increment = v, with worker < 32, process < 32 and increment < 4096, the
\* four fields covering the 64 bits without overlap.
C30_DecompositionLossless ==
    (pc = "done" /\ output[1].call # "serialize") =>
        LET v == result[1].value
            ms == IF Called("date_time") THEN Out.bits ELSE DateTimeOf(v)[1]
            w == IF Called("worker") THEN Out.bits ELSE Worker(v)
            p == IF Called("process") THEN Out.bits ELSE Process(v)
            i == IF Called("increment") THEN Out.bits ELSE Increment(v)
            ts == Minus(ms, DISCORD_EPOCH)
        IN  /\ DateTimeOf(v) # None
            /\ LessEq(DISCORD_EPOCH, ms)
            /\ w \subseteq 0..4
            /\ p \subseteq 0..4
            /\ i \subseteq 0..11
            /\ BitOr(BitOr(BitOr(Shl(ts, 22), Shl(w, 17)), Shl(p, 12)), i) = v
            /\ Shl(ts, 22) \subseteq 22..63
            /\ Shl(ts, 22) \cap Shl(w, 17) = {}
            /\ Shl(w, 17) \cap Shl(p, 12) = {}
            /\ Shl(p, 12) \cap i = {}

\* The increment of the largest u64, whose every field is full, was read.
C30_Witness ==
    /\ Called("increment")
    /\ result[1] = Ok(U64Max)
    /\ Out.bits = 0..11

====
